---- MODULE Spec2Model ----
(***************************************************************************)
(* SmartQA: the AI-provider layer of the backend (api/services/            *)
(* ai_service.py): provider resolution, the tolerant response parser, the  *)
(* mock generator and the fallback-to-mock error handling; and the HTTP    *)
(* layer in its four application variants (backend/app.py with routes/,    *)
(* backend/app_memory.py, backend/app_simple.py, api/index.py): bearer     *)
(* sessions, POST /api/generate and the stored generation results.         *)
(*                                                                         *)
(* Text is a sequence of atoms.  An atom is a one-character string         *)
(* ("{", " ", "1", ...) or a word, a run of letters that the model never   *)
(* splits ("json", "test_cases", "x", ...).  The number of characters of   *)
(* an atom is Len(atom), so character offsets of the source (cleaned[7:],  *)
(* cleaned[:-3], response_text[:500]) are kept as offsets.  The backtick,  *)
(* which a TLA+ string cannot hold, is written as the atom BT.             *)
(*                                                                         *)
(* Python values are tagged records [t |-> type name, v |-> payload]: a    *)
(* dict is a function from its keys, a list a sequence.  An exception is   *)
(* [type |-> class name, msg |-> str(e)]; NoExc means "nothing raised".    *)
(***************************************************************************)
EXTENDS Integers, Sequences, FiniteSets, TLC

VARIABLES
    Config,            \* config.Config: the five credentials and DEFAULT_AI_PROVIDER
    gemini_client,     \* AIService.gemini_client
    groq_client,       \* AIService.groq_client
    anthropic_client,  \* AIService.anthropic_client
    pc,                \* where the current generate_test_cases / _parse_response call stands
    requirements,      \* argument of generate_test_cases (text)
    project_type,      \* argument of generate_test_cases
    provider,          \* argument of generate_test_cases (a str or None)
    invoked,           \* the branch of the dispatch taken: a provider id, "mock", or "" before dispatch
    calls,             \* the network requests sent to providers during this invocation, in order
    response_text,     \* the raw text the provider answered with
    call_exc,          \* the exception raised inside the try block of this invocation
    payload,           \* <<first, last>>: where in response_text the provider's payload lies
    result,            \* the value returned to the caller
    exc,               \* the exception propagated to the caller
    available,         \* the list get_available_providers returned, None before any call
    app,               \* the application variant that serves the requests
    users,             \* the users table / users dict: the accounts
    sessions,          \* the sessions table / sessions_store: the session of each token
    generated_files,   \* the generated_files table / files_store: the stored results
    uploads,           \* the names of the files in Config.UPLOAD_FOLDER
    sequence,          \* the rows ever inserted per table (AUTOINCREMENT) and the tokens ever issued
    now,               \* datetime.now(), in hours
    request,           \* the HTTP request served last
    user,              \* what get_current_user() returned to the handler of that request
    service_calls,     \* the AIService.generate_test_cases calls that handler made, in order
    response,          \* the HTTP response to that request
    threads            \* the requests being served at once: per worker thread its position and locals

\* the state of the HTTP layer
webVars == <<available, app, users, sessions, generated_files, uploads, sequence, now,
             request, user, service_calls, response, threads>>

vars == <<Config, gemini_client, groq_client, anthropic_client, pc, requirements,
          project_type, provider, invoked, calls, response_text, call_exc, payload,
          result, exc, available, app, users, sessions, generated_files, uploads,
          sequence, now, request, user, service_calls, response, threads>>

---------------------------------------------------------------------------
\* Python values and exceptions

PyNone == [t |-> "NoneType", v |-> 0]
PyStr(s) == [t |-> "str", v |-> s]
PyInt(n) == [t |-> "int", v |-> n]
PyBool(b) == [t |-> "bool", v |-> b]
PyList(q) == [t |-> "list", v |-> q]
PyDict(f) == [t |-> "dict", v |-> f]

\* bool(x) for the values tested with "if x" / "if not x" / "x and y"
Truthy(x) ==
    CASE x.t = "NoneType" -> FALSE
      [] x.t = "str" -> x.v # ""
      [] x.t = "int" -> x.v # 0
      [] x.t = "bool" -> x.v
      [] x.t = "list" -> x.v # <<>>
      [] x.t = "dict" -> DOMAIN x.v # {}
      [] OTHER -> TRUE

NoExc == [type |-> "", msg |-> ""]
Exception(type, msg) == [type |-> type, msg |-> msg]

\* d[k] = x on a dict held as a function
Put(f, k, x) == [y \in (DOMAIN f) \cup {k} |-> IF y = k THEN x ELSE f[y]]

---------------------------------------------------------------------------
\* str methods on text

NChars(a) == Len(a)

RECURSIVE lstrip(_)
lstrip(s) == IF s # <<>> /\ Head(s) = " " THEN lstrip(Tail(s)) ELSE s

RECURSIVE rstrip(_)
rstrip(s) == IF s # <<>> /\ s[Len(s)] = " " THEN rstrip(SubSeq(s, 1, Len(s) - 1)) ELSE s

strip(s) == rstrip(lstrip(s))

startswith(s, p) == Len(p) <= Len(s) /\ SubSeq(s, 1, Len(p)) = p

endswith(s, p) == Len(p) <= Len(s) /\ SubSeq(s, Len(s) - Len(p) + 1, Len(s)) = p

\* s[n:], for a cut that falls between two atoms
RECURSIVE DropChars(_, _)
DropChars(s, n) ==
    IF n <= 0 \/ s = <<>> THEN s ELSE DropChars(Tail(s), n - NChars(Head(s)))

\* s[:n]: the atoms that fit whole into the first n characters
RECURSIVE TakeChars(_, _)
TakeChars(s, n) ==
    IF s = <<>> \/ NChars(Head(s)) > n THEN <<>>
    ELSE <<Head(s)>> \o TakeChars(Tail(s), n - NChars(Head(s)))

\* s[:-n], for a cut that falls between two atoms
RECURSIVE DropLastChars(_, _)
DropLastChars(s, n) ==
    IF n <= 0 \/ s = <<>> THEN s
    ELSE DropLastChars(SubSeq(s, 1, Len(s) - 1), n - NChars(s[Len(s)]))

\* str.split(): the maximal runs of non-whitespace atoms, each joined into one str
RECURSIVE SplitFrom(_, _, _)
SplitFrom(s, cur, acc) ==
    IF s = <<>> THEN (IF cur = "" THEN acc ELSE Append(acc, cur))
    ELSE IF Head(s) = " "
         THEN SplitFrom(Tail(s), "", IF cur = "" THEN acc ELSE Append(acc, cur))
         ELSE SplitFrom(Tail(s), cur \o Head(s), acc)

split(s) == SplitFrom(s, "", <<>>)

\* a in s, for one atom a
Contains(s, a) == \E i \in 1..Len(s) : s[i] = a

\* the str a text stands for
RECURSIVE Join(_)
Join(s) == IF s = <<>> THEN "" ELSE Head(s) \o Join(Tail(s))

\* the backtick character U+0060
BT == "'"

\* the literals '```' and '```json' of _parse_response
Fence == <<BT, BT, BT>>
FenceJson == <<BT, BT, BT, "json">>

---------------------------------------------------------------------------
\* json.loads: objects, arrays, strings without escapes, non-negative integers,
\* null, true and false, with blanks between tokens

Digits == {"0", "1", "2", "3", "4", "5", "6", "7", "8", "9"}

DigitVal(a) ==
    CASE a = "0" -> 0 [] a = "1" -> 1 [] a = "2" -> 2 [] a = "3" -> 3 [] a = "4" -> 4
      [] a = "5" -> 5 [] a = "6" -> 6 [] a = "7" -> 7 [] a = "8" -> 8 [] a = "9" -> 9

ScanFail == [ok |-> FALSE, val |-> PyNone, pos |-> 0]
ScanOk(x, p) == [ok |-> TRUE, val |-> x, pos |-> p]

RECURSIVE SkipWs(_, _)
SkipWs(s, i) == IF i <= Len(s) /\ s[i] = " " THEN SkipWs(s, i + 1) ELSE i

\* i is the index after the opening quote
RECURSIVE ScanString(_, _, _)
ScanString(s, i, acc) ==
    IF i > Len(s) THEN ScanFail
    ELSE IF s[i] = "\"" THEN ScanOk(PyStr(acc), i + 1)
    ELSE ScanString(s, i + 1, acc \o s[i])

RECURSIVE ScanNumber(_, _, _)
ScanNumber(s, i, acc) ==
    IF i <= Len(s) /\ s[i] \in Digits
    THEN ScanNumber(s, i + 1, acc * 10 + DigitVal(s[i]))
    ELSE ScanOk(PyInt(acc), i)

RECURSIVE ScanValue(_, _)
RECURSIVE ScanMembers(_, _, _)
RECURSIVE ScanElements(_, _, _)

ScanValue(s, i) ==
    IF i > Len(s) THEN ScanFail
    ELSE CASE s[i] = "{" ->
                LET j == SkipWs(s, i + 1)
                IN  IF j <= Len(s) /\ s[j] = "}" THEN ScanOk(PyDict(<<>>), j + 1)
                    ELSE ScanMembers(s, j, <<>>)
           [] s[i] = "[" ->
                LET j == SkipWs(s, i + 1)
                IN  IF j <= Len(s) /\ s[j] = "]" THEN ScanOk(PyList(<<>>), j + 1)
                    ELSE ScanElements(s, j, <<>>)
           [] s[i] = "\"" -> ScanString(s, i + 1, "")
           [] s[i] = "0" -> ScanOk(PyInt(0), i + 1)
           [] s[i] \in Digits \ {"0"} -> ScanNumber(s, i, 0)
           [] s[i] = "null" -> ScanOk(PyNone, i + 1)
           [] s[i] = "true" -> ScanOk(PyBool(TRUE), i + 1)
           [] s[i] = "false" -> ScanOk(PyBool(FALSE), i + 1)
           [] OTHER -> ScanFail

\* i is where a key must start; a repeated key keeps its last value
ScanMembers(s, i, acc) ==
    IF i > Len(s) \/ s[i] # "\"" THEN ScanFail
    ELSE LET k == ScanString(s, i + 1, "")
         IN  IF ~k.ok THEN ScanFail
             ELSE LET c == SkipWs(s, k.pos)
                  IN  IF c > Len(s) \/ s[c] # ":" THEN ScanFail
                      ELSE LET x == ScanValue(s, SkipWs(s, c + 1))
                           IN  IF ~x.ok THEN ScanFail
                               ELSE LET acc2 == Put(acc, k.val.v, x.val)
                                        e == SkipWs(s, x.pos)
                                    IN  IF e > Len(s) THEN ScanFail
                                        ELSE IF s[e] = "}" THEN ScanOk(PyDict(acc2), e + 1)
                                        ELSE IF s[e] = "," THEN ScanMembers(s, SkipWs(s, e + 1), acc2)
                                        ELSE ScanFail

\* i is where an element must start
ScanElements(s, i, acc) ==
    LET x == ScanValue(s, i)
    IN  IF ~x.ok THEN ScanFail
        ELSE LET acc2 == Append(acc, x.val)
                 e == SkipWs(s, x.pos)
             IN  IF e > Len(s) THEN ScanFail
                 ELSE IF s[e] = "]" THEN ScanOk(PyList(acc2), e + 1)
                 ELSE IF s[e] = "," THEN ScanElements(s, SkipWs(s, e + 1), acc2)
                 ELSE ScanFail

\* ok = FALSE is json.JSONDecodeError
json_loads(s) ==
    LET r == ScanValue(s, SkipWs(s, 1))
    IN  IF r.ok /\ SkipWs(s, r.pos) = Len(s) + 1
        THEN [ok |-> TRUE, val |-> r.val]
        ELSE [ok |-> FALSE, val |-> PyNone]

---------------------------------------------------------------------------
\* AIService._parse_response

\* what a function call ends with: the value it returns, or the exception it raises
Return(x) == [exc |-> NoExc, value |-> x]
Raise(e) == [exc |-> e, value |-> PyNone]

\* the TypeError of obj[key] = x on an obj that is no dict
SetItemError(obj) ==
    IF obj.t = "list"
    THEN Exception("TypeError", "list indices must be integers or slices, not str")
    ELSE Exception("TypeError", "'" \o obj.t \o "' object does not support item assignment")

\* faulty variant: result.setdefault('provider', provider), the value of the
\* response wins
TagProvider_setdefault(obj, provider_id) ==
    IF obj.t = "dict"
    THEN Return(PyDict(IF "provider" \in DOMAIN obj.v THEN obj.v
                       ELSE Put(obj.v, "provider", PyStr(provider_id))))
    ELSE Raise(SetItemError(obj))

\* result['provider'] = provider; return result
TagProvider(obj, provider_id) ==
    IF obj.t = "dict"
    THEN Return(PyDict(Put(obj.v, "provider", PyStr(provider_id))))
    ELSE Raise(SetItemError(obj))

\* the cleaning of the response before the first json.loads
CleanResponse(text) ==
    LET c0 == strip(text)
        c1 == IF startswith(c0, FenceJson) THEN DropChars(c0, 7) ELSE c0
        c2 == IF startswith(c1, Fence) THEN DropChars(c1, 3) ELSE c1
        c3 == IF endswith(c2, Fence) THEN DropLastChars(c2, 3) ELSE c2
    IN  strip(c3)

\* faulty variant: a non-greedy pattern, the leftmost "{" up to the first "}" after it
BraceMatch_nongreedy(text) ==
    LET opens == {i \in 1..Len(text) : text[i] = "{"}
        first == CHOOSE i \in opens : \A j \in opens : i <= j
        closes == {i \in 1..Len(text) : text[i] = "}" /\ i > first}
        last == CHOOSE i \in closes : \A j \in closes : i <= j
    IN  IF opens # {} /\ closes # {}
        THEN [found |-> TRUE, group |-> SubSeq(text, first, last)]
        ELSE [found |-> FALSE, group |-> <<>>]

\* re.search(r'\{[\s\S]*\}', text): the leftmost "{" up to the last "}" after it
BraceMatch(text) ==
    LET opens == {i \in 1..Len(text) : text[i] = "{"}
        closes == {i \in 1..Len(text) : text[i] = "}"}
        first == CHOOSE i \in opens : \A j \in opens : i <= j
        last == CHOOSE i \in closes : \A j \in closes : j <= i
    IN  IF opens # {} /\ closes # {} /\ first < last
        THEN [found |-> TRUE, group |-> SubSeq(text, first, last)]
        ELSE [found |-> FALSE, group |-> <<>>]

\* the structured error response
ParseFailure(text, provider_id) ==
    PyDict([test_cases |-> PyList(<<>>),
            error |-> PyStr("Failed to parse AI response"),
            provider |-> PyStr(provider_id),
            raw_response |-> PyStr(Join(TakeChars(text, 500)))])

\* faulty variant: json.loads on the trimmed text alone, no fence removed and no
\* search for a brace region
_parse_response_strict(text, provider_id) ==
    LET direct == json_loads(strip(text))
    IN  IF direct.ok THEN TagProvider(direct.val, provider_id)
        ELSE Return(ParseFailure(text, provider_id))

_parse_response(text, provider_id) ==
    LET direct == json_loads(CleanResponse(text))
        json_match == BraceMatch(text)
        inner == json_loads(json_match.group)
    IN  IF direct.ok THEN TagProvider(direct.val, provider_id)
        ELSE IF json_match.found /\ inner.ok THEN TagProvider(inner.val, provider_id)
        ELSE Return(ParseFailure(text, provider_id))

---------------------------------------------------------------------------
\* AIService._generate_mock_test_cases

TestCase(test_id, module, test_scenario, preconditions, steps, test_data, expected_result, priority, severity, edge_cases) ==
    PyDict([test_id |-> PyStr(test_id),
            module |-> PyStr(module),
            test_scenario |-> PyStr(test_scenario),
            preconditions |-> PyStr(preconditions),
            steps |-> PyStr(steps),
            test_data |-> PyStr(test_data),
            expected_result |-> PyStr(expected_result),
            actual_result |-> PyStr(""),
            status |-> PyStr("Pending"),
            priority |-> PyStr(priority),
            severity |-> PyStr(severity),
            edge_cases |-> PyStr(edge_cases)])

TC_001(module_name) ==
    TestCase("TC_001", module_name \o " - Core Functionality",
             "Verify basic functionality works as expected",
             "System is accessible and user is authenticated",
             "1. Navigate to the feature\n2. Perform the primary action\n3. Verify the result",
             "Valid input data",
             "Action completes successfully with expected output",
             "High", "Critical",
             "Test with minimum and maximum valid inputs")

TC_002(module_name) ==
    TestCase("TC_002", module_name \o " - Input Validation",
             "Verify system handles invalid input gracefully",
             "System is accessible",
             "1. Navigate to the input form\n2. Enter invalid data\n3. Submit the form\n4. Verify error handling",
             "Invalid/malformed input data",
             "System displays appropriate error message",
             "High", "Major",
             "Test with empty inputs, special characters, SQL injection attempts")

TC_003(module_name) ==
    TestCase("TC_003", module_name \o " - Boundary Testing",
             "Verify system handles boundary conditions",
             "System is accessible with valid permissions",
             "1. Test with minimum boundary value\n2. Test with maximum boundary value\n3. Test with values just outside boundaries",
             "Boundary values (min, max, min-1, max+1)",
             "System accepts valid boundary values and rejects invalid ones",
             "Medium", "Major",
             "Consider integer overflow, date boundaries")

TC_004(module_name) ==
    TestCase("TC_004", module_name \o " - Error Handling",
             "Verify system error handling and recovery",
             "System is accessible",
             "1. Simulate error condition\n2. Verify error is logged\n3. Verify user-friendly message displayed\n4. Verify system recovery",
             "Conditions that trigger errors",
             "System handles errors gracefully without crashing",
             "Medium", "Major",
             "Network failures, timeout conditions, server errors")

\* faulty variant: the fifth case with priority Low
TC_005_low(module_name, ptype) ==
    TestCase("TC_005", module_name \o " - " \o ptype \o " Specific",
             "Verify " \o ptype \o "-specific requirements",
             ptype \o " environment is properly configured",
             "1. Set up " \o ptype \o " test environment\n2. Execute " \o ptype \o "-specific test\n3. Verify results",
             ptype \o "-specific test data",
             "All " \o ptype \o "-specific requirements are met",
             "Low", "Critical",
             "Cross-platform compatibility for " \o ptype)

TC_005(module_name, ptype) ==
    TestCase("TC_005", module_name \o " - " \o ptype \o " Specific",
             "Verify " \o ptype \o "-specific requirements",
             ptype \o " environment is properly configured",
             "1. Set up " \o ptype \o " test environment\n2. Execute " \o ptype \o "-specific test\n3. Verify results",
             ptype \o "-specific test data",
             "All " \o ptype \o "-specific requirements are met",
             "High", "Critical",
             "Cross-platform compatibility for " \o ptype)

\* the list with four of the five cases
mock_test_cases_four(module_name, ptype) ==
    <<TC_001(module_name), TC_002(module_name), TC_003(module_name), TC_004(module_name)>>

mock_test_cases(module_name, ptype) ==
    <<TC_001(module_name), TC_002(module_name), TC_003(module_name), TC_004(module_name),
      TC_005(module_name, ptype)>>

_generate_mock_test_cases(reqs, ptype) ==
    LET all_words == split(reqs)
        words == SubSeq(all_words, 1, IF Len(all_words) < 10 THEN Len(all_words) ELSE 10)
        module_name == IF words # <<>> THEN words[1] ELSE "Feature"
        cases == mock_test_cases(module_name, ptype)
    IN  PyDict([test_cases |-> PyList(cases),
                summary |-> PyDict([total_test_cases |-> PyInt(Len(cases)),
                                    high_priority |-> PyInt(3),
                                    medium_priority |-> PyInt(2),
                                    low_priority |-> PyInt(0)]),
                provider |-> PyStr("mock"),
                note |-> PyStr("Demo mode - Configure an AI provider API key for real test case generation")])

---------------------------------------------------------------------------
\* Config, AIService.__init__ and the dispatch of AIService.generate_test_cases

\* the providers that call out to the network, in the order of AIService.PROVIDERS
ProviderIds == <<"openrouter", "gemini", "groq", "together", "anthropic">>

ProviderIdSet == {ProviderIds[i] : i \in DOMAIN ProviderIds}

\* the packages whose import and client construction AIService.__init__ guards
Libraries == {"google.generativeai", "groq", "anthropic"}

Client(name) == [t |-> "client", v |-> name]

\* the three clients after __init__, given the packages that load and construct
AIService_init(cfg, libs) ==
    [gemini_client |->
        IF cfg.GOOGLE_API_KEY # "" /\ "google.generativeai" \in libs
        THEN Client("gemini") ELSE PyNone,
     groq_client |->
        IF cfg.GROQ_API_KEY # "" /\ "groq" \in libs
        THEN Client("groq") ELSE PyNone,
     anthropic_client |->
        IF cfg.ANTHROPIC_API_KEY # "" /\ "anthropic" \in libs
        THEN Client("anthropic") ELSE PyNone]

\* the credential PROVIDERS[p]['requires'] names, as configured
CredentialOf(cfg, p) ==
    CASE p = "openrouter" -> cfg.OPENROUTER_API_KEY
      [] p = "gemini" -> cfg.GOOGLE_API_KEY
      [] p = "groq" -> cfg.GROQ_API_KEY
      [] p = "together" -> cfg.TOGETHER_API_KEY
      [] p = "anthropic" -> cfg.ANTHROPIC_API_KEY

\* AIService.PROVIDERS: name, description and required credential of each provider
PROVIDERS ==
    [openrouter |-> [name |-> PyStr("OpenRouter (DeepSeek)"),
                     description |-> PyStr("Free: DeepSeek model"),
                     requires |-> PyStr("OPENROUTER_API_KEY")],
     gemini |-> [name |-> PyStr("Google Gemini"),
                 description |-> PyStr("Free: 1,500 requests/day"),
                 requires |-> PyStr("GOOGLE_API_KEY")],
     groq |-> [name |-> PyStr("Groq (Llama 3.1)"),
               description |-> PyStr("Free: 14,400 requests/day"),
               requires |-> PyStr("GROQ_API_KEY")],
     together |-> [name |-> PyStr("Together AI"),
                   description |-> PyStr("Free: $1 credit on signup"),
                   requires |-> PyStr("TOGETHER_API_KEY")],
     anthropic |-> [name |-> PyStr("Anthropic Claude"),
                    description |-> PyStr("Paid: Pay per token"),
                    requires |-> PyStr("ANTHROPIC_API_KEY")],
     mock |-> [name |-> PyStr("Demo Mode"),
               description |-> PyStr("No API key required"),
               requires |-> PyNone]]

\* {'id': p, **self.PROVIDERS[p]}
Descriptor(p) == PyDict(Put(PROVIDERS[p], "id", PyStr(p)))

\* available.append(...) under "if key:"
AppendIf(available_list, key, p) ==
    IF key # "" THEN Append(available_list, Descriptor(p)) ELSE available_list

\* faulty variant: the mock descriptor put first
get_available_providers_mockfirst(cfg) ==
    LET a0 == <<Descriptor("mock")>>
        a1 == AppendIf(a0, cfg.OPENROUTER_API_KEY, "openrouter")
        a2 == AppendIf(a1, cfg.GOOGLE_API_KEY, "gemini")
        a3 == AppendIf(a2, cfg.GROQ_API_KEY, "groq")
        a4 == AppendIf(a3, cfg.TOGETHER_API_KEY, "together")
    IN  AppendIf(a4, cfg.ANTHROPIC_API_KEY, "anthropic")

\* faulty variant: groq listed on the Gemini key
get_available_providers_wrongkey(cfg) ==
    LET a1 == AppendIf(<<>>, cfg.OPENROUTER_API_KEY, "openrouter")
        a2 == AppendIf(a1, cfg.GOOGLE_API_KEY, "gemini")
        a3 == AppendIf(a2, cfg.GOOGLE_API_KEY, "groq")
        a4 == AppendIf(a3, cfg.TOGETHER_API_KEY, "together")
        a5 == AppendIf(a4, cfg.ANTHROPIC_API_KEY, "anthropic")
    IN  Append(a5, Descriptor("mock"))

\* AIService.get_available_providers
get_available_providers(cfg) ==
    LET a1 == AppendIf(<<>>, cfg.OPENROUTER_API_KEY, "openrouter")
        a2 == AppendIf(a1, cfg.GOOGLE_API_KEY, "gemini")
        a3 == AppendIf(a2, cfg.GROQ_API_KEY, "groq")
        a4 == AppendIf(a3, cfg.TOGETHER_API_KEY, "together")
        a5 == AppendIf(a4, cfg.ANTHROPIC_API_KEY, "anthropic")
    IN  Append(a5, Descriptor("mock"))

\* faulty variant: the provider argument used as it came, no default
ResolveProvider_asis(prov, cfg) == prov

\* if not provider: provider = Config.DEFAULT_AI_PROVIDER
ResolveProvider(prov, cfg) ==
    IF ~Truthy(prov) THEN PyStr(cfg.DEFAULT_AI_PROVIDER) ELSE prov

\* faulty variant: the openrouter branch taken without its credential
SelectBranch_nocred(p, cfg, gem, grq, ant) ==
    IF p = PyStr("openrouter") THEN "openrouter"
    ELSE IF p = PyStr("gemini") /\ Truthy(gem) THEN "gemini"
    ELSE IF p = PyStr("groq") /\ Truthy(grq) THEN "groq"
    ELSE IF p = PyStr("together") /\ cfg.TOGETHER_API_KEY # "" THEN "together"
    ELSE IF p = PyStr("anthropic") /\ Truthy(ant) THEN "anthropic"
    ELSE "mock"

\* faulty variant: the groq branch guarded by the gemini client
SelectBranch_wrongclient(p, cfg, gem, grq, ant) ==
    IF p = PyStr("openrouter") /\ cfg.OPENROUTER_API_KEY # "" THEN "openrouter"
    ELSE IF p = PyStr("gemini") /\ Truthy(gem) THEN "gemini"
    ELSE IF p = PyStr("groq") /\ Truthy(gem) THEN "groq"
    ELSE IF p = PyStr("together") /\ cfg.TOGETHER_API_KEY # "" THEN "together"
    ELSE IF p = PyStr("anthropic") /\ Truthy(ant) THEN "anthropic"
    ELSE "mock"

\* the if/elif chain of the try block: the provider whose call function runs, or "mock"
SelectBranch(p, cfg, gem, grq, ant) ==
    IF p = PyStr("openrouter") /\ cfg.OPENROUTER_API_KEY # "" THEN "openrouter"
    ELSE IF p = PyStr("gemini") /\ Truthy(gem) THEN "gemini"
    ELSE IF p = PyStr("groq") /\ Truthy(grq) THEN "groq"
    ELSE IF p = PyStr("together") /\ cfg.TOGETHER_API_KEY # "" THEN "together"
    ELSE IF p = PyStr("anthropic") /\ Truthy(ant) THEN "anthropic"
    ELSE "mock"

\* faulty variant: an except clause for connection errors only, anything else propagates
ExceptHandler_narrow(e, reqs, ptype) ==
    LET mock == _generate_mock_test_cases(reqs, ptype)
    IN  IF e.type = "ConnectionError"
        THEN [pc |-> "returned",
              exc |-> NoExc,
              result |-> PyDict(Put(mock.v, "error", PyStr("AI provider error: " \o e.msg)))]
        ELSE [pc |-> "returned", exc |-> e, result |-> PyNone]

\* faulty variant: the except clause calls the provider again instead of returning
ExceptHandler_retry(e, reqs, ptype) ==
    [pc |-> "in_call", exc |-> NoExc, result |-> PyNone]

\* except Exception as e: the mock result with an 'error' entry, returned to the caller
ExceptHandler(e, reqs, ptype) ==
    LET mock == _generate_mock_test_cases(reqs, ptype)
    IN  [pc |-> "returned",
         exc |-> NoExc,
         result |-> PyDict(Put(mock.v, "error", PyStr("AI provider error: " \o e.msg)))]

\* the ways a _generate_with_* function fails before it reaches _parse_response;
\* sent tells whether the request had gone out to the provider
CallFailures(p) ==
    (IF p \in {"openrouter", "together"}
     THEN {[e |-> Exception("ModuleNotFoundError", "No module named 'openai'"), sent |-> FALSE]}
     ELSE {})
    \cup {[e |-> Exception("ConnectionError", "Connection error."), sent |-> TRUE]}
    \cup (IF p = "gemini"
          THEN {[e |-> Exception("ValueError", "The response has no text part"), sent |-> TRUE]}
          ELSE {[e |-> Exception("IndexError", "list index out of range"), sent |-> TRUE]})

---------------------------------------------------------------------------
\* The inputs

\* the most pieces of wrapping (fences, blanks, prose, stray brackets) around a payload
MaxWrap == 3

Q == "\""

\* {"test_cases": [{"test_id": "TC_001"}], "summary": {"total_test_cases": 1}}
ObjGood ==
    <<"{", Q, "test_cases", Q, ":", " ", "[", "{", Q, "test_id", Q, ":", " ", Q, "TC_001", Q, "}", "]",
      ",", " ", Q, "summary", Q, ":", " ", "{", Q, "total_test_cases", Q, ":", " ", "1", "}", "}">>

\* {"test_cases": [{"test_id": "TC_001"}]}
ObjNoSummary ==
    <<"{", Q, "test_cases", Q, ":", " ", "[", "{", Q, "test_id", Q, ":", " ", Q, "TC_001", Q, "}", "]", "}">>

\* {"test_cases": [], "summary": {"total_test_cases": 2}}
ObjWrongTotal ==
    <<"{", Q, "test_cases", Q, ":", " ", "[", "]", ",", " ",
      Q, "summary", Q, ":", " ", "{", Q, "total_test_cases", Q, ":", " ", "2", "}", "}">>

\* {"test_cases": [{"test_id": "TC_002"}, {"test_id": "TC_002"}]}
ObjBadIds ==
    <<"{", Q, "test_cases", Q, ":", " ", "[", "{", Q, "test_id", Q, ":", " ", Q, "TC_002", Q, "}", ",", " ",
      "{", Q, "test_id", Q, ":", " ", Q, "TC_002", Q, "}", "]", "}">>

\* {"provider": "x"}
ObjProvider == <<"{", Q, "provider", Q, ":", " ", Q, "x", Q, "}">>

ObjEmpty == <<"{", "}">>

\* JSON values that are no object
Arr == <<"[", "1", "]">>
Str == <<Q, "x", Q>>
Num == <<"1", "0">>
Null == <<"null">>

\* the payloads the parser is tried on (<<>>: no payload, the wrapping alone)
Cores == {ObjGood, ObjProvider, ObjEmpty, Arr, Str, Null, <<>>}

WrapPieces == {<<" ">>, Fence, FenceJson, <<"x">>, <<"{">>, <<"}">>, <<"[">>, <<"]">>}

\* the texts made of exactly n pieces
RECURSIVE WrapsOf(_)
WrapsOf(n) ==
    IF n = 0 THEN {<<>>} ELSE {w \o q : w \in WrapsOf(n - 1), q \in WrapPieces}

\* <<before, after>>: the wrappings of at most MaxWrap pieces in all
WrapPairs ==
    UNION {{<<a, b>> : a \in WrapsOf(i), b \in WrapsOf(k - i)} : <<i, k>> \in
           {<<i, k>> \in (0..MaxWrap) \X (0..MaxWrap) : i <= k}}

\* a response: the text and where the payload lies in it
Response(before, core, after) ==
    [text |-> before \o core \o after,
     payload |-> <<Len(before) + 1, Len(before) + Len(core)>>]

ParseInputs == {Response(w[1], c, w[2]) : w \in WrapPairs, c \in Cores}

\* what a provider answers in the runs of generate_test_cases
Responses ==
    {Response(<<>>, c, <<>>) :
        c \in {ObjGood, ObjNoSummary, ObjWrongTotal, ObjBadIds, ObjProvider, Arr, Num, <<"x">>}}
    \cup {Response(FenceJson \o <<" ">>, c, <<" ">> \o Fence) : c \in {ObjGood, Arr}}
    \cup {Response(<<"x", " ">>, ObjGood, <<" ", "x">>),
          Response(<<"{", "x", "}", " ">>, ObjGood, <<>>)}

RequirementsTexts == {<<>>, <<"Login", " ", "should", " ", "allow", " ", "valid", " ", "users">>}

ProjectTypes == {"Web", "Mobile", "API", "Desktop"}

\* the provider argument: None, '' or an id, known or not
ProviderArgs == {PyNone, PyStr("")} \cup {PyStr(p) : p \in ProviderIdSet \cup {"mock", "other"}}

Keys == {"", "sk-key"}

Configs ==
    [OPENROUTER_API_KEY : Keys, GOOGLE_API_KEY : Keys, GROQ_API_KEY : Keys,
     TOGETHER_API_KEY : Keys, ANTHROPIC_API_KEY : Keys,
     DEFAULT_AI_PROVIDER : ProviderIdSet \cup {"mock", ""}]

\* the configuration of an environment that sets nothing
DefaultConfig ==
    [OPENROUTER_API_KEY |-> "", GOOGLE_API_KEY |-> "", GROQ_API_KEY |-> "",
     TOGETHER_API_KEY |-> "", ANTHROPIC_API_KEY |-> "", DEFAULT_AI_PROVIDER |-> "openrouter"]

\* _parse_response(response, provider id) for every response and provider of the
\* runs of generate_test_cases, computed once
ParsedResponses ==
    [r \in Responses, p \in ProviderIdSet |-> _parse_response(r.text, p)]

---------------------------------------------------------------------------
\* The service: one generate_test_cases call at a time, the provider as environment

\* no HTTP layer around the service: nothing stored, no request served
WebIdle ==
    /\ available = PyNone
    /\ app = ""
    /\ users = {}
    /\ sessions = {}
    /\ generated_files = {}
    /\ uploads = {}
    /\ sequence = [users |-> 0, generated_files |-> 0, tokens |-> 0]
    /\ now = 0
    /\ request = PyNone
    /\ user = PyNone
    /\ service_calls = <<>>
    /\ response = PyNone
    /\ threads = <<>>

NoCall ==
    /\ requirements = <<>>
    /\ project_type = ""
    /\ provider = PyNone
    /\ invoked = ""
    /\ calls = <<>>
    /\ response_text = <<>>
    /\ call_exc = NoExc
    /\ payload = <<1, 0>>
    /\ result = PyNone
    /\ exc = NoExc

Init ==
    /\ Config \in Configs
    /\ \E libs \in SUBSET Libraries :
          LET s == AIService_init(Config, libs)
          IN  /\ gemini_client = s.gemini_client
              /\ groq_client = s.groq_client
              /\ anthropic_client = s.anthropic_client
    /\ pc = "idle"
    /\ NoCall
    /\ WebIdle

\* generate_test_cases up to the provider's answer: the mock result at once, or
\* the call function of the selected provider entered
GenerateTestCases(reqs, ptype, prov) ==
    /\ pc = "idle"
    /\ requirements' = reqs
    /\ project_type' = ptype
    /\ provider' = prov
    /\ LET branch == SelectBranch(ResolveProvider(prov, Config), Config,
                                  gemini_client, groq_client, anthropic_client)
       IN  /\ invoked' = branch
           /\ IF branch = "mock"
              THEN /\ pc' = "returned"
                   /\ result' = _generate_mock_test_cases(reqs, ptype)
              ELSE /\ pc' = "in_call"
                   /\ result' = PyNone
    /\ exc' = NoExc
    /\ UNCHANGED <<Config, gemini_client, groq_client, anthropic_client, calls,
                   response_text, call_exc, payload>>
    /\ UNCHANGED webVars

\* the call function raises: the except clause of generate_test_cases runs
ProviderRaises(f) ==
    /\ pc = "in_call"
    /\ f \in CallFailures(invoked)
    /\ calls' = IF f.sent THEN Append(calls, invoked) ELSE calls
    /\ call_exc' = f.e
    /\ LET h == ExceptHandler(f.e, requirements, project_type)
       IN  /\ pc' = h.pc
           /\ result' = h.result
           /\ exc' = h.exc
    /\ UNCHANGED <<Config, gemini_client, groq_client, anthropic_client, requirements,
                   project_type, provider, invoked, response_text, payload>>
    /\ UNCHANGED webVars

\* the provider answers with text: _parse_response, and the except clause if it raises
ProviderResponds(r) ==
    /\ pc = "in_call"
    /\ calls' = Append(calls, invoked)
    /\ response_text' = r.text
    /\ payload' = r.payload
    /\ LET parsed == ParsedResponses[r, invoked]
           h == ExceptHandler(parsed.exc, requirements, project_type)
       IN  /\ call_exc' = parsed.exc
           /\ IF parsed.exc = NoExc
              THEN /\ pc' = "returned"
                   /\ result' = parsed.value
                   /\ exc' = NoExc
              ELSE /\ pc' = h.pc
                   /\ result' = h.result
                   /\ exc' = h.exc
    /\ UNCHANGED <<Config, gemini_client, groq_client, anthropic_client, requirements,
                   project_type, provider, invoked>>
    /\ UNCHANGED webVars

\* the caller has its result; the service waits for the next call
NextCall ==
    /\ pc = "returned"
    /\ pc' = "idle"
    /\ requirements' = <<>>
    /\ project_type' = ""
    /\ provider' = PyNone
    /\ invoked' = ""
    /\ calls' = <<>>
    /\ response_text' = <<>>
    /\ call_exc' = NoExc
    /\ payload' = <<1, 0>>
    /\ result' = PyNone
    /\ exc' = NoExc
    /\ UNCHANGED <<Config, gemini_client, groq_client, anthropic_client>>
    /\ UNCHANGED webVars

Next ==
    \/ \E reqs \in RequirementsTexts, ptype \in ProjectTypes, prov \in ProviderArgs :
          GenerateTestCases(reqs, ptype, prov)
    \/ \E p \in ProviderIdSet : \E f \in CallFailures(p) : ProviderRaises(f)
    \/ \E r \in Responses : ProviderResponds(r)
    \/ NextCall

Spec == Init /\ [][Next]_vars

---------------------------------------------------------------------------
\* _parse_response alone, on every wrapping of every payload

InitParse ==
    /\ Config = DefaultConfig
    /\ gemini_client = PyNone
    /\ groq_client = PyNone
    /\ anthropic_client = PyNone
    /\ pc = "parse"
    /\ requirements = <<>>
    /\ project_type = ""
    /\ provider = PyNone
    /\ calls = <<>>
    /\ call_exc = NoExc
    /\ result = PyNone
    /\ exc = NoExc
    /\ invoked \in {"openrouter", "gemini"}
    /\ \E r \in ParseInputs :
          /\ response_text = r.text
          /\ payload = r.payload
    /\ WebIdle

ParseResponse ==
    /\ pc = "parse"
    /\ pc' = "parsed"
    /\ LET parsed == _parse_response(response_text, invoked)
       IN  /\ result' = parsed.value
           /\ exc' = parsed.exc
    /\ UNCHANGED <<Config, gemini_client, groq_client, anthropic_client, requirements,
                   project_type, provider, invoked, calls, response_text, call_exc, payload>>
    /\ UNCHANGED webVars

NextParse == ParseResponse

SpecParse == InitParse /\ [][NextParse]_vars

---------------------------------------------------------------------------
\* get_available_providers alone, on every configuration

InitProviders ==
    /\ Config \in Configs
    /\ \E libs \in SUBSET Libraries :
          LET s == AIService_init(Config, libs)
          IN  /\ gemini_client = s.gemini_client
              /\ groq_client = s.groq_client
              /\ anthropic_client = s.anthropic_client
    /\ pc = "idle"
    /\ NoCall
    /\ app \in {"app", "app_memory", "app_simple", "index"}
    /\ available = PyNone
    /\ users = {}
    /\ sessions = {}
    /\ generated_files = {}
    /\ uploads = {}
    /\ sequence = [users |-> 0, generated_files |-> 0, tokens |-> 0]
    /\ now = 0
    /\ request = PyNone
    /\ user = PyNone
    /\ service_calls = <<>>
    /\ response = PyNone
    /\ threads = <<>>

GetAvailableProviders ==
    /\ pc = "idle"
    /\ pc' = "listed"
    /\ available' = PyList(get_available_providers(Config))
    /\ UNCHANGED <<Config, gemini_client, groq_client, anthropic_client, requirements,
                   project_type, provider, invoked, calls, response_text, call_exc, payload,
                   result, exc, app, users, sessions, generated_files, uploads, sequence,
                   now, request, user, service_calls, response, threads>>

\* GET /api/providers: get_providers of routes/generate.py, app_memory.py,
\* app_simple.py (the default of the configuration) and index.py (always mock);
\* loaded: get_ai_service() returned the service, not None
get_providers(a, cfg, loaded) ==
    LET fallback == PyDict([id |-> PyStr("mock"), name |-> PyStr("Demo Mode"),
                            description |-> PyStr("Fallback")])
    IN  IF ~loaded
        THEN [status |-> 200, body |-> [providers |-> PyList(<<fallback>>), default |-> "mock"]]
        ELSE [status |-> 200,
              body |-> [providers |-> PyList(get_available_providers(cfg)),
                        default |-> IF a = "index" THEN "mock" ELSE cfg.DEFAULT_AI_PROVIDER]]

GetProviders(loaded) ==
    /\ pc = "idle"
    /\ pc' = IF loaded THEN "listed" ELSE "served"
    /\ available' = IF loaded THEN PyList(get_available_providers(Config)) ELSE PyNone
    /\ request' = [route |-> "GET /api/providers", authorization |-> <<>>, content_type |-> "",
                   data |-> PyNone, file |-> PyNone, file_id |-> 0]
    /\ response' = get_providers(app, Config, loaded)
    /\ UNCHANGED <<Config, gemini_client, groq_client, anthropic_client, requirements,
                   project_type, provider, invoked, calls, response_text, call_exc, payload,
                   result, exc, app, users, sessions, generated_files, uploads, sequence,
                   now, user, service_calls, threads>>

NextProviders ==
    \/ GetAvailableProviders
    \/ \E loaded \in BOOLEAN : GetProviders(loaded)

SpecProviders == InitProviders /\ [][NextProviders]_vars

---------------------------------------------------------------------------
\* The HTTP layer: helpers shared by the application variants

\* app.py with routes/auth.py, routes/generate.py and routes/export.py;
\* app_memory.py; app_simple.py; api/index.py (in its in-memory mode)
Apps == {"app", "app_memory", "app_simple", "index"}

\* Config.TOKEN_EXPIRY_HOURS, and the literal hours=24 of app_memory.py and index.py
TOKEN_EXPIRY_HOURS == 24

\* jsonify(body), status
Json(status, body) == [status |-> status, body |-> body]

Unauthorized == Json(401, [error |-> "Unauthorized"])

\* data.get(key, default) on the JSON object or the form of a request
Get(data, key, default) == IF key \in DOMAIN data THEN data[key] ELSE default

\* str.lower() of one atom
LowerAtom(a) ==
    CASE a = "A" -> "a"
      [] a = "TXT" -> "txt"
      [] a = "Web" -> "web"
      [] a = "Mobile" -> "mobile"
      [] a = "API" -> "api"
      [] a = "Desktop" -> "desktop"
      [] a = "Other" -> "other"
      [] OTHER -> a

\* str.lower()
lower(s) == [i \in 1..Len(s) |-> LowerAtom(s[i])]

\* secrets.token_hex(32): the n-th token issued, different from all issued before
TokenAt(n) == <<"tok1", "tok2", "tok3", "tok4", "tok5">>[n]

\* 'Bearer <token>'
Bearer(token) == <<"Bearer", " ", token>>

\* the account a handler works for: user.id and user.email (id 0 where accounts have no id)
Identity(id, email) == [id |-> id, email |-> email]

\* bcrypt.hashpw(password, gensalt()): checkpw accepts the password hashed and no other
hash_password(password) == [bcrypt |-> password]

verify_password(password, password_hash) == password_hash = [bcrypt |-> password]

\* User.find_by_email / users.get(email)
find_by_email(usrs, email) ==
    IF \E u \in usrs : u.email = email
    THEN CHOOSE u \in usrs : u.email = email
    ELSE PyNone

\* User.find_by_id
find_by_id(usrs, id) ==
    IF \E u \in usrs : u.id = id
    THEN CHOOSE u \in usrs : u.id = id
    ELSE PyNone

\* faulty variant: the new session is added, the old ones of the user stay
create_session_token_keepall(a, u, sess, seq, t) ==
    LET token == TokenAt(seq.tokens + 1)
        row == [token |-> token,
                user_id |-> IF a = "app" THEN u.id ELSE 0,
                user_email |-> IF a = "app" THEN "" ELSE u.email,
                expires_at |-> t + TOKEN_EXPIRY_HOURS]
    IN  [token |-> token,
         sessions |-> sess \cup {row},
         sequence |-> [seq EXCEPT !.tokens = @ + 1]]

\* create_session_token: a fresh token that expires in 24 hours; routes/auth.py
\* first deletes the sessions of the user, the in-memory variants key by token
create_session_token(a, u, sess, seq, t) ==
    LET token == TokenAt(seq.tokens + 1)
        row == [token |-> token,
                user_id |-> IF a = "app" THEN u.id ELSE 0,
                user_email |-> IF a = "app" THEN "" ELSE u.email,
                expires_at |-> t + TOKEN_EXPIRY_HOURS]
        kept == IF a = "app"
                THEN {r \in sess : r.user_id # u.id}
                ELSE {r \in sess : r.token # token}
    IN  [token |-> token,
         sessions |-> kept \cup {row},
         sequence |-> [seq EXCEPT !.tokens = @ + 1]]

\* faulty variant: the expiry of the session is not looked at
get_current_user_noexpiry(a, auth_header, sess, usrs, t) ==
    IF ~startswith(auth_header, <<"Bearer", " ">>)
    THEN [user |-> PyNone, sessions |-> sess]
    ELSE LET token == Join(DropChars(auth_header, 7))
             rows == {r \in sess : r.token = token}
             row == CHOOSE r \in rows : TRUE
         IN  IF token = "" \/ rows = {}
             THEN [user |-> PyNone, sessions |-> sess]
             ELSE [user |-> Identity(row.user_id, row.user_email), sessions |-> sess]

\* get_current_user of routes/auth.py (with validate_token), app_memory.py and
\* index.py: the identity the Authorization header resolves to, or None; and
\* the sessions afterwards (app_memory.py deletes an expired session it meets)
get_current_user(a, auth_header, sess, usrs, t) ==
    IF ~startswith(auth_header, <<"Bearer", " ">>)
    THEN [user |-> PyNone, sessions |-> sess]
    ELSE LET token == Join(DropChars(auth_header, 7))
             rows == {r \in sess : r.token = token}
             row == CHOOSE r \in rows : TRUE
             found == IF a = "app" THEN find_by_id(usrs, row.user_id)
                      ELSE find_by_email(usrs, row.user_email)
         IN  IF token = "" \/ rows = {}
             THEN [user |-> PyNone, sessions |-> sess]
             ELSE IF row.expires_at < t
             THEN [user |-> PyNone,
                   sessions |-> IF a = "app_memory" THEN sess \ {row} ELSE sess]
             ELSE IF a = "index"
             THEN [user |-> Identity(0, row.user_email), sessions |-> sess]
             ELSE IF found = PyNone
             THEN [user |-> PyNone, sessions |-> sess]
             ELSE [user |-> Identity(found.id, found.email), sessions |-> sess]

---------------------------------------------------------------------------
\* The HTTP layer: accounts and sessions

\* what a handler leaves behind: its response and the stores after it
AuthOutcome(resp, usrs, sess, seq) ==
    [response |-> resp, users |-> usrs, sessions |-> sess, sequence |-> seq]

\* except Exception as e of the in-memory handlers, for data.get on None
NoneHasNoGet == Json(500, [error |-> "'NoneType' object has no attribute 'get'"])

\* POST /api/signup: signup of routes/auth.py, app_memory.py and index.py
signup(a, data, usrs, sess, seq, t) ==
    LET fail(status, msg) == AuthOutcome(Json(status, [error |-> msg]), usrs, sess, seq)
        name == strip(Get(data.v, "name", <<>>))
        email_text == lower(strip(Get(data.v, "email", <<>>)))
        email == Join(email_text)
        password == Get(data.v, "password", "")
        row == [id |-> IF a = "app" THEN seq.users + 1 ELSE 0,
                name |-> Join(name),
                email |-> email,
                password_hash |-> hash_password(password)]
        created == create_session_token(a, row, sess, [seq EXCEPT !.users = @ + 1], t)
        done == AuthOutcome(Json(201, [message |-> IF a = "index" THEN "Account created"
                                                   ELSE "Account created successfully",
                                       user |-> [id |-> row.id, name |-> row.name, email |-> email],
                                       token |-> created.token]),
                            usrs \cup {row}, created.sessions, created.sequence)
    IN  IF a = "app"
        THEN IF ~Truthy(data) THEN fail(400, "No data provided")
             ELSE IF name = <<>> THEN fail(400, "Name is required")
             ELSE IF email = "" THEN fail(400, "Email is required")
             ELSE IF password = "" THEN fail(400, "Password is required")
             ELSE IF Len(password) < 6 THEN fail(400, "Password must be at least 6 characters")
             ELSE IF ~Contains(email_text, "@") \/ ~Contains(email_text, ".")
                  THEN fail(400, "Invalid email format")
             ELSE IF find_by_email(usrs, email) # PyNone THEN fail(409, "Email already registered")
             ELSE done
        ELSE IF data = PyNone THEN AuthOutcome(NoneHasNoGet, usrs, sess, seq)
             ELSE IF name = <<>> \/ email = "" \/ password = ""
                  THEN fail(400, "All fields are required")
             ELSE IF a = "app_memory" /\ Len(password) < 6
                  THEN fail(400, "Password must be at least 6 characters")
             ELSE IF find_by_email(usrs, email) # PyNone THEN fail(409, "Email already registered")
             ELSE done

\* POST /api/login: login of routes/auth.py, app_memory.py and index.py
login(a, data, usrs, sess, seq, t) ==
    LET fail(status, msg) == AuthOutcome(Json(status, [error |-> msg]), usrs, sess, seq)
        email == Join(lower(strip(Get(data.v, "email", <<>>))))
        password == Get(data.v, "password", "")
        found == find_by_email(usrs, email)
        created == create_session_token(a, found, sess, seq, t)
        done == AuthOutcome(Json(200, [message |-> "Login successful",
                                       user |-> [id |-> found.id, name |-> found.name, email |-> email],
                                       token |-> created.token]),
                            usrs, created.sessions, created.sequence)
        invalid == IF a = "index" THEN "Invalid credentials" ELSE "Invalid email or password"
    IN  IF a = "app" /\ ~Truthy(data) THEN fail(400, "No data provided")
        ELSE IF a # "app" /\ data = PyNone THEN AuthOutcome(NoneHasNoGet, usrs, sess, seq)
        ELSE IF a = "app" /\ email = "" THEN fail(400, "Email is required")
        ELSE IF a = "app" /\ password = "" THEN fail(400, "Password is required")
        ELSE IF a = "app_memory" /\ (email = "" \/ password = "")
             THEN fail(400, "Email and password are required")
        ELSE IF found = PyNone THEN fail(401, invalid)
        ELSE IF ~verify_password(password, found.password_hash) THEN fail(401, invalid)
        ELSE done

\* faulty variant: the answer without the delete, the session stays
logout_keep(a, auth_header, sess) ==
    [response |-> Json(200, [message |-> "Logged out successfully"]), sessions |-> sess]

\* POST /api/logout of routes/auth.py, app_memory.py and index.py: the session
\* of the token presented is deleted; always 200
logout(a, auth_header, sess) ==
    [response |-> Json(200, [message |-> "Logged out successfully"]),
     sessions |-> IF startswith(auth_header, <<"Bearer", " ">>)
                  THEN {r \in sess : r.token # Join(DropChars(auth_header, 7))}
                  ELSE sess]

\* GET /api/me
get_me(a, auth_header, sess, usrs, t) ==
    LET cur == get_current_user(a, auth_header, sess, usrs, t)
    IN  [response |-> IF cur.user = PyNone THEN Unauthorized
                      ELSE Json(200, [user |-> cur.user]),
         user |-> cur.user,
         sessions |-> cur.sessions]

---------------------------------------------------------------------------
\* The HTTP layer: POST /api/generate and the stored results

\* Config.ALLOWED_EXTENSIONS
ALLOWED_EXTENSIONS == {"pdf", "docx", "txt"}

\* filename.rsplit('.', 1)[1]: the atoms after the last dot
RECURSIVE AfterLastDot(_)
AfterLastDot(filename) ==
    IF filename = <<>> \/ filename[Len(filename)] = "." THEN <<>>
    ELSE Append(AfterLastDot(SubSeq(filename, 1, Len(filename) - 1)), filename[Len(filename)])

\* FileParser.allowed_file
allowed_file(filename, allowed_extensions) ==
    Contains(filename, ".") /\ Join(lower(AfterLastDot(filename))) \in allowed_extensions

\* werkzeug's secure_filename on the names tried: the dots at both ends go
RECURSIVE secure_filename(_)
secure_filename(filename) ==
    IF filename # <<>> /\ Head(filename) = "." THEN secure_filename(Tail(filename))
    ELSE IF filename # <<>> /\ filename[Len(filename)] = "."
    THEN secure_filename(SubSeq(filename, 1, Len(filename) - 1))
    ELSE filename

\* FileParser.extract_text on the saved upload: the text, the ValueError for a
\* path with no known extension, or the exception of a PDF or DOCX the library
\* cannot read (a .txt is read as UTF-8, else as Latin-1)
extract_text(file_path, file) ==
    LET extension == IF Contains(file_path, ".") THEN Join(lower(AfterLastDot(file_path))) ELSE ""
    IN  IF extension \notin {"pdf", "docx", "txt"}
        THEN Raise(Exception("ValueError", "Unsupported file type: " \o extension))
        ELSE IF extension = "txt" \/ file.readable
        THEN Return(file.content)
        ELSE Raise(Exception("Exception", "Error reading " \o extension))

\* faulty variant: the saved copy removed after a successful extraction only
TempUpload_onsuccess(upl, file_path, extracted) ==
    LET saved == upl \cup {Join(file_path)}
    IN  IF extracted.exc = NoExc THEN saved \ {Join(file_path)} ELSE saved

\* the upload folder after file.save(file_path); try: extract_text(file_path)
\* finally: if os.path.exists(file_path): os.remove(file_path)
TempUpload(upl, file_path, extracted) ==
    LET saved == upl \cup {Join(file_path)}
    IN  saved \ {Join(file_path)}

\* AIService.generate_test_cases as the handlers see it: the results a call can
\* return, one per way the selected provider can fail or answer (answers, taken
\* from Responses)
generate_test_cases(reqs, ptype, prov, cfg, gem, grq, ant, answers) ==
    LET branch == SelectBranch(ResolveProvider(prov, cfg), cfg, gem, grq, ant)
        parsed(r) == ParsedResponses[r, branch]
    IN  IF branch = "mock"
        THEN {_generate_mock_test_cases(reqs, ptype)}
        ELSE {ExceptHandler(f.e, reqs, ptype).result : f \in CallFailures(branch)}
             \cup {IF parsed(r).exc = NoExc THEN parsed(r).value
                   ELSE ExceptHandler(parsed(r).exc, reqs, ptype).result : r \in answers}

\* what the handler of POST /api/generate has when it reaches the service call,
\* or the response it returned before
Prepared(early, usr, sess, upl, reqs, ptype, prov) ==
    [early |-> early, user |-> usr, sessions |-> sess, uploads |-> upl,
     requirements |-> reqs, project_type |-> ptype, ai_provider |-> prov]

\* POST /api/generate up to the service call: generate_test_cases of
\* routes/generate.py and app_simple.py, generate of app_memory.py and index.py.
\* legacy_json: request.get_json() answers None for a body that is not JSON
\* (older Flask) instead of raising (newer Flask)
generate_prepare(a, req, sess, usrs, upl, t, legacy_json) ==
    LET cur == IF a = "app_simple" THEN [user |-> PyNone, sessions |-> sess]
               ELSE get_current_user(a, req.authorization, sess, usrs, t)
        multipart == req.content_type = "multipart/form-data"
        \* if 'file' in request.files: ... if file and file.filename:
        has_file == a # "index" /\ req.file # PyNone /\ req.file.filename # <<>>
        allowed == allowed_file(req.file.filename, ALLOWED_EXTENSIONS)
        file_path == secure_filename(req.file.filename)
        extracted == extract_text(file_path, req.file)
        \* the upload folder when the handler returns
        folder == IF (a = "app_simple" \/ cur.user # PyNone) /\ has_file /\ allowed
                  THEN TempUpload(upl, file_path, extracted) ELSE upl
        early(resp) == Prepared(resp, cur.user, cur.sessions, folder, <<>>, "", PyNone)
        from_file == IF has_file THEN extracted.value ELSE <<>>
        \* the form, or request.get_json() or {} (index.py never reads the form)
        data == IF req.data = PyNone \/ (a = "index" /\ multipart) THEN <<>> ELSE req.data.v
        from_data == strip(Get(data, "requirements", <<>>))
        reqs == IF from_file # <<>> THEN from_file ELSE from_data
        asked == Get(data, "project_type", "Web")
        ptype == IF a \in {"app", "app_simple"} /\ asked \notin {"Web", "Mobile", "API", "Desktop"}
                 THEN "Web" ELSE asked
        error500(e) == IF a = "app"
                       THEN Json(500, [error |-> "An error occurred during test case generation"])
                       ELSE IF a = "app_simple"
                       THEN Json(500, [error |-> "An error occurred: " \o e.msg])
                       ELSE Json(500, [error |-> e.msg])
    IN  IF a # "app_simple" /\ cur.user = PyNone THEN early(Unauthorized)
        ELSE IF has_file /\ ~allowed
        THEN early(Json(400, [error |-> IF a = "app_memory" THEN "Invalid file type"
                                        ELSE "Invalid file type. Allowed: PDF, DOCX, TXT"]))
        ELSE IF has_file /\ extracted.exc # NoExc THEN early(error500(extracted.exc))
        ELSE IF a = "index" /\ multipart /\ ~legacy_json
        THEN early(error500(Exception("UnsupportedMediaType", "415 Unsupported Media Type")))
        ELSE IF reqs = <<>> THEN early(Json(400, [error |-> "Requirements are required"]))
        ELSE Prepared(PyNone, cur.user, cur.sessions, folder, reqs, ptype,
                      Get(data, "ai_provider", PyNone))

\* f"test_cases_{project_type.lower()}_{timestamp}"
Filename(ptype, t) == "test_cases_" \o LowerAtom(ptype) \o "_" \o ToString(t)

\* the row save_generated_file inserts / the entry files_store[file_id] gets
FileRow(a, id, usr, reqs, ptype, res, t) ==
    [id |-> id,
     user_id |-> usr.id,
     user_email |-> IF a = "app" THEN "" ELSE usr.email,
     filename |-> Filename(ptype, t),
     requirements |-> IF a = "app" THEN TakeChars(reqs, 1000) ELSE <<>>,
     test_cases |-> res,
     project_type |-> ptype,
     created_at |-> t]

\* the id under which the result is stored: the AUTOINCREMENT key, or
\* len(files_store) + 1
NewFileId(a, files, seq) ==
    IF a = "app" THEN seq.generated_files + 1 ELSE Cardinality(files) + 1

\* POST /api/generate from the result of the service call on: the result stored
\* (routes/generate.py, app_memory.py) and the 200 response
generate_finish(a, prep, res, files, seq, t) ==
    LET stores == a \in {"app", "app_memory"}
        file_id == NewFileId(a, files, seq)
        row == FileRow(a, file_id, prep.user, prep.requirements, prep.project_type, res, t)
        shown == [success |-> TRUE,
                  test_cases |-> Get(res.v, "test_cases", PyList(<<>>)),
                  summary |-> Get(res.v, "summary", PyDict(<<>>)),
                  provider |-> Get(res.v, "provider", PyStr("unknown")),
                  note |-> IF a = "app_memory" THEN PyStr("") ELSE Get(res.v, "note", PyStr("")),
                  file_id |-> IF stores THEN file_id ELSE 0,
                  filename |-> IF a = "app" THEN row.filename ELSE ""]
    IN  [response |-> Json(200, shown),
         generated_files |-> IF stores THEN {f \in files : f.id # file_id} \cup {row} ELSE files,
         sequence |-> IF stores THEN [seq EXCEPT !.generated_files = @ + 1] ELSE seq]

\* faulty variant: the file looked up by its id alone
get_user_file_anyowner(files, user_id, file_id) ==
    IF \E f \in files : f.id = file_id
    THEN CHOOSE f \in files : f.id = file_id
    ELSE PyNone

\* get_user_file of routes/export.py and the select of get_generated_file:
\* the row with this id and this owner
get_user_file(files, user_id, file_id) ==
    IF \E f \in files : f.id = file_id /\ f.user_id = user_id
    THEN CHOOSE f \in files : f.id = file_id /\ f.user_id = user_id
    ELSE PyNone

FileNotFound == Json(404, [error |-> "File not found"])

\* GET /api/generate/<file_id>
get_generated_file(auth_header, file_id, sess, usrs, files, t) ==
    LET cur == get_current_user("app", auth_header, sess, usrs, t)
        row == get_user_file(files, cur.user.id, file_id)
    IN  [user |-> cur.user,
         response |->
            IF cur.user = PyNone THEN Unauthorized
            ELSE IF row = PyNone THEN FileNotFound
            ELSE Json(200, [id |-> row.id, filename |-> row.filename,
                            requirements |-> row.requirements,
                            test_cases |-> Get(row.test_cases.v, "test_cases", PyList(<<>>)),
                            summary |-> Get(row.test_cases.v, "summary", PyDict(<<>>)),
                            project_type |-> row.project_type,
                            created_at |-> row.created_at])]

\* the columns of the sheet, as keys of a test case
Columns ==
    <<"test_id", "module", "test_scenario", "preconditions", "steps", "test_data",
      "expected_result", "actual_result", "status", "priority", "severity", "edge_cases">>

\* the cells of one data row: tc.get(key, '') and tc.get('status', 'Pending')
Cells(tc) ==
    [i \in 1..Len(Columns) |->
        Get(tc.v, Columns[i], IF Columns[i] = "status" THEN PyStr("Pending") ELSE PyStr(""))]

\* GET /api/download/excel/<file_id> and GET /api/download/csv/<file_id>
download(format, auth_header, file_id, sess, usrs, files, t) ==
    LET cur == get_current_user("app", auth_header, sess, usrs, t)
        row == get_user_file(files, cur.user.id, file_id)
        test_cases == Get(row.test_cases.v, "test_cases", PyList(<<>>)).v
    IN  [user |-> cur.user,
         response |->
            IF cur.user = PyNone THEN Unauthorized
            ELSE IF row = PyNone THEN FileNotFound
            ELSE Json(200, [download_name |-> row.filename \o (IF format = "excel" THEN ".xlsx" ELSE ".csv"),
                            rows |-> [i \in 1..Len(test_cases) |-> Cells(test_cases[i])]])]

\* DELETE /api/history/<file_id>
delete_history_item(auth_header, file_id, sess, usrs, files, t) ==
    LET cur == get_current_user("app", auth_header, sess, usrs, t)
        mine == {f \in files : f.id = file_id /\ f.user_id = cur.user.id}
    IN  IF cur.user = PyNone
        THEN [user |-> PyNone, response |-> Unauthorized, generated_files |-> files]
        ELSE [user |-> cur.user,
              response |-> IF mine # {} THEN Json(200, [message |-> "File deleted successfully"])
                           ELSE FileNotFound,
              generated_files |-> files \ mine]

\* the orders a listing of the set rows can have: by created_at, newest first,
\* rows of one timestamp in any order (routes/export.py), or by the insertion of
\* the keys, which are counted up (app_memory.py)
Arrangements(a, rows) ==
    {q \in [1..Cardinality(rows) -> rows] :
        /\ \A i, j \in DOMAIN q : i # j => q[i] # q[j]
        /\ \A i, j \in DOMAIN q :
              i < j => IF a = "app" THEN q[i].created_at >= q[j].created_at
                       ELSE q[i].id < q[j].id}

\* what the listing shows of a stored file
HistoryEntry(f) ==
    [id |-> f.id, filename |-> f.filename, project_type |-> f.project_type,
     created_at |-> f.created_at]

\* LIMIT 50 of the listing of routes/export.py
HISTORY_LIMIT == 50

\* GET /api/history: get_history of routes/export.py (ORDER BY created_at DESC,
\* rows of one timestamp in any order), of app_memory.py (the entries of the
\* user in the order of the dict, which is the order of the keys' insertion) and
\* of index.py (always empty); the set of the possible outcomes
get_history(a, auth_header, sess, usrs, files, t) ==
    LET cur == get_current_user(a, auth_header, sess, usrs, t)
        mine == IF a = "app" THEN {f \in files : f.user_id = cur.user.id}
                ELSE IF a = "app_memory" THEN {f \in files : f.user_email = cur.user.email}
                ELSE {}
        shown(q) == SubSeq(q, 1, IF a = "app" /\ Len(q) > HISTORY_LIMIT
                                 THEN HISTORY_LIMIT ELSE Len(q))
        listings == {[i \in DOMAIN shown(q) |-> HistoryEntry(q[i])] :
                        q \in Arrangements(a, mine)}
    IN  IF cur.user = PyNone
        THEN {[user |-> PyNone, sessions |-> cur.sessions, response |-> Unauthorized]}
        ELSE {[user |-> cur.user, sessions |-> cur.sessions,
               response |-> Json(200, [history |-> h])] : h \in listings}

---------------------------------------------------------------------------
\* The HTTP layer: the requests tried and the application as a state machine

\* the most session tokens issued, the most results stored, the latest hour
MaxTokens == 2
MaxFiles == 2
MaxNow == 48

\* the hours that pass in one step of the clock
TickHours == TOKEN_EXPIRY_HOURS

\* the environment of the application: a Groq key, the default provider left unset
HttpConfig == [DefaultConfig EXCEPT !.GROQ_API_KEY = "sk-key"]

\* what the provider answers in these runs
HttpAnswers == {Response(<<>>, ObjGood, <<>>)}

EmailA == <<"a", "@", "x", ".", "io">>
EmailB == <<"b", "@", "x", ".", "io">>

BodyA == PyDict([name |-> <<"Ann">>, email |-> EmailA, password |-> "secret1"])
BodyB == PyDict([name |-> <<"Bob">>, email |-> EmailB, password |-> "hunter22"])

\* the JSON bodies of POST /api/signup (None: no JSON body)
SignupBodies ==
    {PyNone, BodyA, BodyB,
     PyDict([name |-> <<"Ann">>, email |-> <<" ", "A", "@", "x", ".", "io", " ">>, password |-> "secret2"]),
     PyDict([name |-> <<" ">>, email |-> EmailB, password |-> "hunter22"]),
     PyDict([name |-> <<"Bob">>, email |-> EmailB, password |-> "abc"]),
     PyDict([name |-> <<"Bob">>, email |-> <<"bob">>, password |-> "hunter22"])}

\* the JSON bodies of POST /api/login
LoginBodies ==
    {PyNone,
     PyDict([email |-> EmailA, password |-> "secret1"]),
     PyDict([email |-> EmailB, password |-> "hunter22"]),
     PyDict([email |-> EmailA, password |-> "hunter22"]),
     PyDict([email |-> EmailA])}

\* the Authorization headers: none, well-formed ones with tokens issued or not,
\* and malformed ones
GoodHeaders == {Bearer(TokenAt(n)) : n \in 1..MaxTokens}

BadHeaders ==
    {<<>>, Bearer("forged"), <<"Bearer", " ">>, <<"bearer", " ", "tok1">>, <<"Token", ":", "tok1">>}

AuthHeaders == GoodHeaders \cup BadHeaders

ReqText == <<"Login", " ", "works">>

\* an uploaded file: its name, its text, and whether the PDF/DOCX library can read it
Upload(filename, content, readable) ==
    [filename |-> filename, content |-> content, readable |-> readable]

\* Content-Type, form or JSON body, and upload of a POST /api/generate
GenerateInput(content_type, data, file) ==
    [content_type |-> content_type, data |-> data, file |-> file]

JsonInputs ==
    {GenerateInput("application/json", d, PyNone) :
        d \in {PyNone,
               PyDict([requirements |-> ReqText]),
               PyDict([requirements |-> <<" ">>]),
               PyDict([project_type |-> "API"]),
               PyDict([requirements |-> ReqText, project_type |-> "API"]),
               PyDict([requirements |-> ReqText, project_type |-> "Other"]),
               PyDict([requirements |-> ReqText, ai_provider |-> PyStr("groq")])}}

FormInputs ==
    {GenerateInput("multipart/form-data", PyDict(<<>>), f) :
        f \in {Upload(<<"req", ".", "txt">>, ReqText, TRUE),
               Upload(<<"req", ".", "TXT">>, <<" ">>, TRUE),
               Upload(<<"req", ".", "txt">>, <<>>, TRUE),
               Upload(<<"req", ".", "pdf">>, ReqText, FALSE),
               Upload(<<".", "txt">>, ReqText, TRUE),
               Upload(<<"setup", ".", "exe">>, ReqText, TRUE),
               Upload(<<"README">>, ReqText, TRUE)}}
    \cup {GenerateInput("multipart/form-data", PyDict([requirements |-> ReqText]), f) :
            f \in {PyNone, Upload(<<>>, <<>>, TRUE), Upload(<<"setup", ".", "exe">>, ReqText, TRUE)}}

GenerateInputs == JsonInputs \cup FormInputs

\* an HTTP request: method and rule, Authorization header, Content-Type, body, upload, <file_id>
Req(route, authorization, content_type, data, file, file_id) ==
    [route |-> route, authorization |-> authorization, content_type |-> content_type,
     data |-> data, file |-> file, file_id |-> file_id]

\* the routes each variant registers
Routes(a) ==
    CASE a = "app" ->
            {"POST /api/signup", "POST /api/login", "POST /api/logout", "GET /api/me",
             "POST /api/generate", "GET /api/generate/<file_id>",
             "GET /api/download/excel/<file_id>", "GET /api/download/csv/<file_id>",
             "DELETE /api/history/<file_id>", "GET /api/history", "GET /api/providers"}
      [] a \in {"app_memory", "index"} ->
            {"POST /api/signup", "POST /api/login", "POST /api/logout", "GET /api/me",
             "POST /api/generate", "GET /api/history", "GET /api/providers"}
      [] a = "app_simple" -> {"POST /api/generate", "GET /api/providers"}

\* the AIService variables, which the HTTP layer reads and never changes
serviceVars ==
    <<Config, gemini_client, groq_client, anthropic_client, pc, requirements,
      project_type, provider, invoked, calls, response_text, call_exc, payload,
      result, exc, available>>

\* the application started: no account, no session, nothing stored
AppStarted ==
    /\ app \in Apps
    /\ Config = HttpConfig
    /\ LET s == AIService_init(HttpConfig, Libraries)
       IN  /\ gemini_client = s.gemini_client
           /\ groq_client = s.groq_client
           /\ anthropic_client = s.anthropic_client
    /\ pc = "idle"
    /\ NoCall
    /\ available = PyNone
    /\ generated_files = {}
    /\ uploads = {}
    /\ now = 0
    /\ request = PyNone
    /\ user = PyNone
    /\ service_calls = <<>>
    /\ response = PyNone

InitAuth ==
    /\ AppStarted
    /\ threads = <<>>
    /\ users = {}
    /\ sessions = {}
    /\ sequence = [users |-> 0, generated_files |-> 0, tokens |-> 0]

\* the stores once Ann and then Bob have signed up (app_simple.py has no accounts)
TwoAccounts(a) ==
    LET empty == AuthOutcome(PyNone, {}, {}, [users |-> 0, generated_files |-> 0, tokens |-> 0])
        ann == signup(a, BodyA, empty.users, empty.sessions, empty.sequence, 0)
    IN  IF a = "app_simple" THEN empty
        ELSE signup(a, BodyB, ann.users, ann.sessions, ann.sequence, 0)

InitHttp ==
    /\ AppStarted
    /\ threads = <<>>
    /\ users = TwoAccounts(app).users
    /\ sessions = TwoAccounts(app).sessions
    /\ sequence = TwoAccounts(app).sequence

Signup(data) ==
    /\ "POST /api/signup" \in Routes(app)
    /\ sequence.tokens < MaxTokens
    /\ LET out == signup(app, data, users, sessions, sequence, now)
       IN  /\ response' = out.response
           /\ users' = out.users
           /\ sessions' = out.sessions
           /\ sequence' = out.sequence
    /\ request' = Req("POST /api/signup", <<>>, "application/json", data, PyNone, 0)
    /\ user' = PyNone
    /\ service_calls' = <<>>
    /\ UNCHANGED <<serviceVars, threads, app, generated_files, uploads, now>>

Login(data) ==
    /\ "POST /api/login" \in Routes(app)
    /\ sequence.tokens < MaxTokens
    /\ LET out == login(app, data, users, sessions, sequence, now)
       IN  /\ response' = out.response
           /\ users' = out.users
           /\ sessions' = out.sessions
           /\ sequence' = out.sequence
    /\ request' = Req("POST /api/login", <<>>, "application/json", data, PyNone, 0)
    /\ user' = PyNone
    /\ service_calls' = <<>>
    /\ UNCHANGED <<serviceVars, threads, app, generated_files, uploads, now>>

Logout(auth_header) ==
    /\ "POST /api/logout" \in Routes(app)
    /\ LET out == logout(app, auth_header, sessions)
       IN  /\ response' = out.response
           /\ sessions' = out.sessions
    /\ request' = Req("POST /api/logout", auth_header, "", PyNone, PyNone, 0)
    /\ user' = PyNone
    /\ service_calls' = <<>>
    /\ UNCHANGED <<serviceVars, threads, app, users, generated_files, uploads, sequence, now>>

Me(auth_header) ==
    /\ "GET /api/me" \in Routes(app)
    /\ LET out == get_me(app, auth_header, sessions, users, now)
       IN  /\ response' = out.response
           /\ user' = out.user
           /\ sessions' = out.sessions
    /\ request' = Req("GET /api/me", auth_header, "", PyNone, PyNone, 0)
    /\ service_calls' = <<>>
    /\ UNCHANGED <<serviceVars, threads, app, users, generated_files, uploads, sequence, now>>

\* POST /api/generate, the whole handler: the validation, the one call of
\* AIService.generate_test_cases with whatever the provider does, the result
\* stored, the response
Generate(auth_header, input, legacy_json) ==
    /\ "POST /api/generate" \in Routes(app)
    /\ sequence.generated_files < MaxFiles
    /\ LET req == Req("POST /api/generate", auth_header, input.content_type,
                      input.data, input.file, 0)
           prep == generate_prepare(app, req, sessions, users, uploads, now, legacy_json)
       IN  /\ request' = req
           /\ user' = prep.user
           /\ sessions' = prep.sessions
           /\ uploads' = prep.uploads
           /\ IF prep.early # PyNone
              THEN /\ response' = prep.early
                   /\ service_calls' = <<>>
                   /\ UNCHANGED <<generated_files, sequence>>
              ELSE \E res \in generate_test_cases(prep.requirements, prep.project_type,
                                                  prep.ai_provider, Config, gemini_client,
                                                  groq_client, anthropic_client, HttpAnswers) :
                      LET out == generate_finish(app, prep, res, generated_files, sequence, now)
                      IN  /\ response' = out.response
                          /\ generated_files' = out.generated_files
                          /\ sequence' = out.sequence
                          /\ service_calls' = <<[requirements |-> prep.requirements,
                                                 project_type |-> prep.project_type,
                                                 provider |-> prep.ai_provider]>>
    /\ UNCHANGED <<serviceVars, threads, app, users, now>>

GetGeneratedFile(auth_header, file_id) ==
    /\ "GET /api/generate/<file_id>" \in Routes(app)
    /\ LET out == get_generated_file(auth_header, file_id, sessions, users, generated_files, now)
       IN  /\ response' = out.response
           /\ user' = out.user
    /\ request' = Req("GET /api/generate/<file_id>", auth_header, "", PyNone, PyNone, file_id)
    /\ service_calls' = <<>>
    /\ UNCHANGED <<serviceVars, threads, app, users, sessions, generated_files, uploads, sequence, now>>

Download(format, auth_header, file_id) ==
    /\ "GET /api/download/" \o format \o "/<file_id>" \in Routes(app)
    /\ LET out == download(format, auth_header, file_id, sessions, users, generated_files, now)
       IN  /\ response' = out.response
           /\ user' = out.user
    /\ request' = Req("GET /api/download/" \o format \o "/<file_id>", auth_header, "",
                      PyNone, PyNone, file_id)
    /\ service_calls' = <<>>
    /\ UNCHANGED <<serviceVars, threads, app, users, sessions, generated_files, uploads, sequence, now>>

DeleteHistoryItem(auth_header, file_id) ==
    /\ "DELETE /api/history/<file_id>" \in Routes(app)
    /\ LET out == delete_history_item(auth_header, file_id, sessions, users, generated_files, now)
       IN  /\ response' = out.response
           /\ user' = out.user
           /\ generated_files' = out.generated_files
    /\ request' = Req("DELETE /api/history/<file_id>", auth_header, "", PyNone, PyNone, file_id)
    /\ service_calls' = <<>>
    /\ UNCHANGED <<serviceVars, threads, app, users, sessions, uploads, sequence, now>>

GetHistory(auth_header) ==
    /\ "GET /api/history" \in Routes(app)
    /\ \E out \in get_history(app, auth_header, sessions, users, generated_files, now) :
          /\ response' = out.response
          /\ user' = out.user
          /\ sessions' = out.sessions
    /\ request' = Req("GET /api/history", auth_header, "", PyNone, PyNone, 0)
    /\ service_calls' = <<>>
    /\ UNCHANGED <<serviceVars, threads, app, users, generated_files, uploads, sequence, now>>

\* time passes between two requests; the exchange before is over
Tick ==
    /\ now + TickHours <= MaxNow
    /\ now' = now + TickHours
    /\ request' = PyNone
    /\ user' = PyNone
    /\ service_calls' = <<>>
    /\ response' = PyNone
    /\ UNCHANGED <<serviceVars, threads, app, users, sessions, generated_files, uploads, sequence>>

\* a POST /api/generate that names no requirements
NoRequirements == GenerateInput("application/json", PyDict(<<>>), PyNone)

\* accounts, sessions and the clock; every protected route is asked once per header
NextAuth ==
    \/ \E data \in SignupBodies : Signup(data)
    \/ \E data \in LoginBodies : Login(data)
    \/ \E h \in AuthHeaders : Logout(h)
    \/ \E h \in AuthHeaders : Me(h)
    \/ \E h \in AuthHeaders : Generate(h, NoRequirements, TRUE)
    \/ \E h \in AuthHeaders : GetGeneratedFile(h, 1)
    \/ \E format \in {"excel", "csv"}, h \in AuthHeaders : Download(format, h, 1)
    \/ \E h \in AuthHeaders : DeleteHistoryItem(h, 1)
    \/ Tick

SpecAuth == InitAuth /\ [][NextAuth]_vars

\* <<Authorization header, input>>: every input with the token of a user and
\* with no header, two inputs with each of the other headers
GenerateRequests ==
    ((GoodHeaders \cup {<<>>}) \X GenerateInputs)
    \cup (BadHeaders \X {GenerateInput("application/json", PyDict([requirements |-> ReqText]), PyNone),
                        GenerateInput("multipart/form-data", PyDict(<<>>), Upload(<<"setup", ".", "exe">>, ReqText, TRUE))})

\* the Flask versions that matter to the variant: only index.py asks for JSON
\* whatever the Content-Type
FlaskChoices(a) == IF a = "index" THEN BOOLEAN ELSE {TRUE}

\* the headers tried on the routes of the stored results
FileHeaders == GoodHeaders \cup {<<>>, Bearer("forged")}

\* generation and the stored results, for two signed-up users and strangers
NextHttp ==
    \/ \E r \in GenerateRequests, legacy_json \in FlaskChoices(app) :
          Generate(r[1], r[2], legacy_json)
    \/ \E h \in FileHeaders, file_id \in 1..(MaxFiles + 1) : GetGeneratedFile(h, file_id)
    \/ \E format \in {"excel", "csv"}, h \in FileHeaders, file_id \in 1..(MaxFiles + 1) :
          Download(format, h, file_id)
    \/ \E h \in FileHeaders, file_id \in 1..(MaxFiles + 1) : DeleteHistoryItem(h, file_id)

SpecHttp == InitHttp /\ [][NextHttp]_vars

---------------------------------------------------------------------------
\* The listing of the stored results: generate, delete and list as time passes

InitHistory == InitHttp

\* the generate requests of these runs: two project types, hence two filenames
HistoryInputs ==
    {GenerateInput("application/json", PyDict([requirements |-> ReqText]), PyNone),
     GenerateInput("application/json",
                   PyDict([requirements |-> ReqText, project_type |-> "API"]), PyNone)}

NextHistory ==
    \/ \E h \in GoodHeaders, input \in HistoryInputs : Generate(h, input, TRUE)
    \/ \E h \in FileHeaders, file_id \in 1..MaxFiles : DeleteHistoryItem(h, file_id)
    \/ \E h \in FileHeaders : GetHistory(h)
    \/ Tick

SpecHistory == InitHistory /\ [][NextHistory]_vars

---------------------------------------------------------------------------
\* Requests served at once: the handlers of POST /api/signup and of POST
\* /api/generate (app_memory.py) statement by statement, one worker thread each

\* the worker threads of the server
Workers == 2

\* a worker: where it is in its handler, the route, the handler's locals, the response
Thread(at, route, locals, resp) == [pc |-> at, route |-> route, locals |-> locals, response |-> resp]

ThreadIdle == Thread("idle", "", <<>>, PyNone)

\* the signup bodies of these runs: Ann, Ann's email again (padded, upper case,
\* another password), Bob
RaceSignupBodies ==
    {BodyA,
     PyDict([name |-> <<"Ann">>, email |-> <<" ", "A", "@", "x", ".", "io", " ">>, password |-> "secret2"]),
     BodyB}

raceVars == <<serviceVars, app, generated_files, uploads, now, request, user, service_calls, response>>

InitRace ==
    /\ AppStarted
    /\ users = {}
    /\ sessions = {}
    /\ sequence = [users |-> 0, generated_files |-> 0, tokens |-> 0]
    /\ threads = [i \in 1..Workers |-> ThreadIdle]

\* signup up to the lookup: the body read and validated
SignupBegin(i, data) ==
    /\ "POST /api/signup" \in Routes(app)
    /\ threads[i].pc = "idle"
    /\ sequence.tokens < MaxTokens
    /\ LET alone == signup(app, data, {}, {}, sequence, now)
           locals == [name |-> Join(strip(Get(data.v, "name", <<>>))),
                      email |-> Join(lower(strip(Get(data.v, "email", <<>>)))),
                      password |-> Get(data.v, "password", "")]
       IN  threads' = [threads EXCEPT ![i] =
                          IF alone.response.status # 201
                          THEN Thread("done", "POST /api/signup", <<>>, alone.response)
                          ELSE Thread("check", "POST /api/signup", locals, PyNone)]
    /\ UNCHANGED <<raceVars, users, sessions, sequence>>

\* User.find_by_email(email) / if email in users: 409 when the email is taken
SignupCheck(i) ==
    /\ threads[i].pc = "check"
    /\ threads' = [threads EXCEPT ![i] =
                      IF find_by_email(users, @.locals.email) # PyNone
                      THEN Thread("done", @.route, @.locals,
                                  Json(409, [error |-> "Email already registered"]))
                      ELSE Thread("create", @.route, @.locals, PyNone)]
    /\ UNCHANGED <<raceVars, users, sessions, sequence>>

\* User.create (the INSERT fails on the UNIQUE email) / users[email] = {...}
\* (the entry of the key is replaced)
SignupCreate(i) ==
    /\ threads[i].pc = "create"
    /\ LET l == threads[i].locals
           row == [id |-> IF app = "app" THEN sequence.users + 1 ELSE 0,
                   name |-> l.name,
                   email |-> l.email,
                   password_hash |-> hash_password(l.password)]
           taken == \E u \in users : u.email = l.email
       IN  IF app = "app" /\ taken
           THEN /\ threads' = [threads EXCEPT ![i] =
                                  Thread("done", @.route, @.locals,
                                         Json(500, [error |-> "An error occurred during signup"]))]
                /\ UNCHANGED <<users, sequence>>
           ELSE /\ users' = {u \in users : u.email # l.email} \cup {row}
                /\ sequence' = [sequence EXCEPT !.users = @ + 1]
                /\ threads' = [threads EXCEPT ![i] =
                                  Thread("session", @.route, [row |-> row, password |-> l.password], PyNone)]
    /\ UNCHANGED <<raceVars, sessions>>

\* create_session_token and the 201 response
SignupSession(i) ==
    /\ threads[i].pc = "session"
    /\ LET row == threads[i].locals.row
           created == create_session_token(app, row, sessions, sequence, now)
       IN  /\ sessions' = created.sessions
           /\ sequence' = created.sequence
           /\ threads' = [threads EXCEPT ![i] =
                 Thread("done", @.route, @.locals,
                        Json(201, [message |-> IF app = "index" THEN "Account created"
                                               ELSE "Account created successfully",
                                   user |-> [id |-> row.id, name |-> row.name, email |-> row.email],
                                   token |-> created.token]))]
    /\ UNCHANGED <<raceVars, users>>

\* generate of app_memory.py up to the result of the service call
GenerateBegin(i, auth_header) ==
    /\ app = "app_memory"
    /\ threads[i].pc = "idle"
    /\ Cardinality(generated_files) < MaxFiles
    /\ LET req == Req("POST /api/generate", auth_header, "application/json",
                      PyDict([requirements |-> ReqText]), PyNone, 0)
           prep == generate_prepare(app, req, sessions, users, uploads, now, TRUE)
       IN  /\ sessions' = prep.sessions
           /\ IF prep.early # PyNone
              THEN threads' = [threads EXCEPT ![i] =
                                  Thread("done", "POST /api/generate", <<>>, prep.early)]
              ELSE \E res \in generate_test_cases(prep.requirements, prep.project_type,
                                                  prep.ai_provider, Config, gemini_client,
                                                  groq_client, anthropic_client, HttpAnswers) :
                      threads' = [threads EXCEPT ![i] =
                                     Thread("file_id", "POST /api/generate",
                                            [prep |-> prep, result |-> res], PyNone)]
    /\ UNCHANGED <<raceVars, users, sequence>>

\* file_id = len(files_store) + 1
GenerateFileId(i) ==
    /\ threads[i].pc = "file_id"
    /\ threads' = [threads EXCEPT ![i] =
                      Thread("store", @.route,
                             [prep |-> @.locals.prep, result |-> @.locals.result,
                              file_id |-> NewFileId(app, generated_files, sequence)], PyNone)]
    /\ UNCHANGED <<raceVars, users, sessions, sequence>>

\* files_store[file_id] = {...} and the 200 response
GenerateStore(i) ==
    /\ threads[i].pc = "store"
    /\ LET l == threads[i].locals
           row == FileRow(app, l.file_id, l.prep.user, l.prep.requirements,
                          l.prep.project_type, l.result, now)
           shown == generate_finish(app, l.prep, l.result, generated_files, sequence, now).response
       IN  /\ generated_files' = {f \in generated_files : f.id # l.file_id} \cup {row}
           /\ sequence' = [sequence EXCEPT !.generated_files = @ + 1]
           /\ threads' = [threads EXCEPT ![i] =
                 Thread("done", @.route, [file_id |-> l.file_id],
                        [shown EXCEPT !.body.file_id = l.file_id])]
    /\ UNCHANGED <<serviceVars, app, uploads, now, request, user, service_calls, response,
                   users, sessions>>

\* the response is sent; the worker takes the next request
Respond(i) ==
    /\ threads[i].pc = "done"
    /\ threads' = [threads EXCEPT ![i] = ThreadIdle]
    /\ UNCHANGED <<raceVars, users, sessions, sequence>>

NextRace ==
    \E i \in 1..Workers :
        \/ \E data \in RaceSignupBodies : SignupBegin(i, data)
        \/ SignupCheck(i)
        \/ SignupCreate(i)
        \/ SignupSession(i)
        \/ \E h \in GoodHeaders : GenerateBegin(i, h)
        \/ GenerateFileId(i)
        \/ GenerateStore(i)
        \/ Respond(i)

SpecRace == InitRace /\ [][NextRace]_vars

---------------------------------------------------------------------------
\* Properties of generate_test_cases (under Spec)

Has(d, k) == d.t = "dict" /\ k \in DOMAIN d.v

\* the dispatch of the current call has been made
Dispatched == pc \in {"in_call", "returned"}

\* result is the mock result of the current arguments, given what else it may hold
IsMockResult(extra) ==
    /\ result.t = "dict"
    /\ DOMAIN result.v = DOMAIN _generate_mock_test_cases(requirements, project_type).v \cup extra
    /\ \A k \in DOMAIN result.v \ extra :
          result.v[k] = _generate_mock_test_cases(requirements, project_type).v[k]
    /\ result.v["provider"] = PyStr("mock")
    /\ Len(result.v["test_cases"].v) = 5

\* C1: no exception ever reaches the caller of generate_test_cases, and a call
\* whose provider raised (on submission, on retrieval or in parsing) returns the
\* mock result, 5 test cases and provider 'mock', with an 'error' entry that
\* describes the exception.
C1_ProviderExceptionCaught ==
    /\ exc = NoExc
    /\ (pc = "returned" /\ call_exc # NoExc) =>
          /\ IsMockResult({"error"})
          /\ result.v["error"] = PyStr("AI provider error: " \o call_exc.msg)

C1_Witness ==
    /\ pc = "returned"
    /\ call_exc.type = "TypeError"
    /\ Has(result, "error")
    /\ result.v["provider"] = PyStr("mock")

\* C2: a call that requests a provider whose credential is not configured takes
\* the mock branch: no provider function runs, no request is sent, nothing is
\* raised, and the result is the mock result without an 'error' entry.
C2_MissingCredentialFallsBack ==
    \A p \in ProviderIdSet :
        (Dispatched /\ provider = PyStr(p) /\ CredentialOf(Config, p) = "") =>
            /\ pc = "returned"
            /\ invoked = "mock"
            /\ calls = <<>>
            /\ call_exc = NoExc
            /\ exc = NoExc
            /\ IsMockResult({})

C2_Witness ==
    /\ pc = "returned"
    /\ provider = PyStr("gemini")
    /\ Config.GOOGLE_API_KEY = ""
    /\ Config.OPENROUTER_API_KEY # ""
    /\ result.v["provider"] = PyStr("mock")
    /\ ~Has(result, "error")

NoCredentials == \A p \in ProviderIdSet : CredentialOf(Config, p) = ""

\* C3: with no credential configured, a call without a provider argument returns,
\* for each of the project types Web, Mobile, API and Desktop and whatever the
\* default provider id, a result with provider 'mock' and exactly 5 test cases.
C3_NoCredentialsMock ==
    (pc = "returned" /\ provider = PyNone /\ NoCredentials
        /\ project_type \in {"Web", "Mobile", "API", "Desktop"}) =>
        /\ exc = NoExc
        /\ Has(result, "provider")
        /\ result.v["provider"] = PyStr("mock")
        /\ Has(result, "test_cases")
        /\ result.v["test_cases"].t = "list"
        /\ Len(result.v["test_cases"].v) = 5

C3_Witness ==
    /\ pc = "returned"
    /\ provider = PyNone
    /\ NoCredentials
    /\ Config.DEFAULT_AI_PROVIDER = "gemini"
    /\ project_type = "Desktop"
    /\ Len(result.v["test_cases"].v) = 5

ClientReady(p) ==
    CASE p = "gemini" -> gemini_client # PyNone
      [] p = "groq" -> groq_client # PyNone
      [] p = "anthropic" -> anthropic_client # PyNone
      [] OTHER -> TRUE

C5_AtMostOneCall ==
    /\ Len(calls) <= 1
    /\ \A i \in 1..Len(calls) : calls[i] = invoked /\ invoked \in ProviderIdSet
    /\ invoked = "mock" => calls = <<>>
    /\ call_exc # NoExc =>
          /\ pc = "returned"
          /\ Has(result, "provider")
          /\ result.v["provider"] = PyStr("mock")

C5_Witness ==
    /\ pc = "returned"
    /\ call_exc.type = "ConnectionError"
    /\ calls = <<"together">>

\* C10: every result generate_test_cases returns has a summary whose
\* total_test_cases equals the number of its test cases.
C10_TotalMatchesLength ==
    pc = "returned" =>
        /\ Has(result, "test_cases")
        /\ Has(result, "summary")
        /\ Has(result.v["summary"], "total_test_cases")
        /\ result.v["summary"].v["total_test_cases"] = PyInt(Len(result.v["test_cases"].v))

---------------------------------------------------------------------------
\* Properties of _parse_response (under SpecParse)

\* response_text = Before \o Core \o After
Before == SubSeq(response_text, 1, payload[1] - 1)
Core == SubSeq(response_text, payload[1], payload[2])
After == SubSeq(response_text, payload[2] + 1, Len(response_text))

IsJsonObject(t) == json_loads(t).ok /\ json_loads(t).val.t = "dict"

\* the object the text t denotes, with its 'provider' entry set to the provider called
Tagged(t) == PyDict(Put(json_loads(t).val.v, "provider", PyStr(invoked)))

\* some region of response_text from a "{" to a later "}" parses as JSON
HasParseableRegion ==
    \E i \in 1..Len(response_text), j \in 1..Len(response_text) :
        /\ i < j
        /\ response_text[i] = "{"
        /\ response_text[j] = "}"
        /\ json_loads(SubSeq(response_text, i, j)).ok

\* C6: _parse_response raises on no response text.
C6_ParserNeverRaises == pc = "parsed" => exc = NoExc

\* C7: for a response that is not valid JSON and holds no parseable {...} region,
\* _parse_response returns test_cases == [], the error 'Failed to parse AI
\* response', the provider id, and the first 500 characters of the response.
C7_DegradedResult ==
    (pc = "parsed" /\ ~json_loads(response_text).ok /\ ~HasParseableRegion) =>
        /\ exc = NoExc
        /\ result.t = "dict"
        /\ DOMAIN result.v = {"test_cases", "error", "provider", "raw_response"}
        /\ result.v["test_cases"] = PyList(<<>>)
        /\ result.v["error"] = PyStr("Failed to parse AI response")
        /\ result.v["provider"] = PyStr(invoked)
        /\ result.v["raw_response"] = PyStr(Join(TakeChars(response_text, 500)))
        /\ Len(result.v["raw_response"].v) <= 500

\* the payload is a JSON object between one opening fence, bare or tagged json,
\* and one closing fence
FencedObject ==
    /\ IsJsonObject(Core)
    /\ strip(Before) \in {Fence, FenceJson}
    /\ strip(After) = Fence

\* C8: for a JSON object wrapped in one pair of fences, with or without the json
\* tag, _parse_response returns what it returns for the object's text alone.
C8_FencedSameAsUnfenced ==
    (pc = "parsed" /\ FencedObject) =>
        /\ exc = NoExc
        /\ _parse_response(Core, invoked).exc = NoExc
        /\ result = _parse_response(Core, invoked).value
        /\ result = Tagged(Core)

C8_Witness ==
    /\ pc = "parsed"
    /\ Core = ObjGood
    /\ Before = FenceJson \o <<" ">>
    /\ After = Fence
    /\ result = Tagged(ObjGood)

\* the payload is a JSON object with some text before it or after it
EmbeddedObject ==
    /\ IsJsonObject(Core)
    /\ Before \o After # <<>>

---------------------------------------------------------------------------
\* Further properties of generate_test_cases (under Spec)

\* the provider answered with text that is not JSON and holds no JSON {...} region
MalformedResponse ==
    /\ calls # <<>>
    /\ response_text # <<>>
    /\ ~json_loads(response_text).ok
    /\ ~HasParseableRegion

\* C11: every provider error, a raised exception as well as a malformed or
\* unparseable response, ends in a result that carries an 'error' string and
\* the mock test cases.
C11_ProviderErrorMockContent ==
    (pc = "returned" /\ invoked \in ProviderIdSet /\ (call_exc # NoExc \/ MalformedResponse)) =>
        /\ exc = NoExc
        /\ Has(result, "error")
        /\ result.v["error"].t = "str"
        /\ Has(result, "test_cases")
        /\ result.v["test_cases"] =
              _generate_mock_test_cases(requirements, project_type).v["test_cases"]

\* C14: a call with no provider argument (None or '') is dispatched as a call
\* that names Config.DEFAULT_AI_PROVIDER: the same branch is taken, and on the
\* mock branch the mock result is returned.
C14_AbsentProviderUsesDefault ==
    (Dispatched /\ provider \in {PyNone, PyStr("")}) =>
        /\ invoked = SelectBranch(PyStr(Config.DEFAULT_AI_PROVIDER), Config,
                                  gemini_client, groq_client, anthropic_client)
        /\ (Config.DEFAULT_AI_PROVIDER \in ProviderIdSet
              /\ CredentialOf(Config, Config.DEFAULT_AI_PROVIDER) # ""
              /\ ClientReady(Config.DEFAULT_AI_PROVIDER)) =>
                 invoked = Config.DEFAULT_AI_PROVIDER
        /\ invoked = "mock" => (pc = "returned" /\ IsMockResult({}))

C14_Witness ==
    /\ pc = "in_call"
    /\ provider = PyNone
    /\ Config.DEFAULT_AI_PROVIDER = "groq"
    /\ invoked = "groq"

\* the number of test cases of the list tcs whose priority is p
CountPriority(tcs, p) ==
    Cardinality({i \in 1..Len(tcs) : tcs[i].v["priority"] = PyStr(p)})

\* the result came from the mock generator (with or without an 'error' entry)
FromMockGenerator ==
    /\ pc = "returned"
    /\ invoked = "mock" \/ call_exc # NoExc

\* C19: the summary of a mock result counts its test cases: high_priority = 3,
\* medium_priority = 2 and low_priority = 0 are the numbers of cases with
\* priority High, Medium and Low, and they add up to total_test_cases = 5.
C19_MockSummaryConsistent ==
    FromMockGenerator =>
        LET tcs == result.v["test_cases"].v
            summary == result.v["summary"].v
        IN  /\ summary["high_priority"] = PyInt(3)
            /\ summary["medium_priority"] = PyInt(2)
            /\ summary["low_priority"] = PyInt(0)
            /\ CountPriority(tcs, "High") = 3
            /\ CountPriority(tcs, "Medium") = 2
            /\ CountPriority(tcs, "Low") = 0
            /\ summary["total_test_cases"] = PyInt(5)
            /\ summary["high_priority"].v + summary["medium_priority"].v
                  + summary["low_priority"].v = summary["total_test_cases"].v

C19_Witness ==
    /\ pc = "returned"
    /\ invoked = "mock"
    /\ project_type = "API"
    /\ requirements # <<>>
    /\ CountPriority(result.v["test_cases"].v, "High") = 3

\* TC_001, TC_002, ...: the id of the i-th test case
TestIdAt(i) == <<"TC_001", "TC_002", "TC_003", "TC_004", "TC_005", "TC_006", "TC_007", "TC_008", "TC_009">>[i]

\* C20: in every result generate_test_cases returns, the i-th test case has the
\* test_id TC_00i, so the ids are sequential from 1 and pairwise distinct.
C20_SequentialTestIds ==
    (pc = "returned" /\ Has(result, "test_cases") /\ result.v["test_cases"].t = "list") =>
        \A i \in 1..Len(result.v["test_cases"].v) :
            LET tc == result.v["test_cases"].v[i]
            IN  /\ Has(tc, "test_id")
                /\ tc.v["test_id"] = PyStr(TestIdAt(i))

---------------------------------------------------------------------------
\* Properties of get_available_providers (under SpecProviders)

\* the ids of the descriptors listed
AvailableIds == [i \in 1..Len(available.v) |-> available.v[i].v["id"].v]

PriorityOrder == <<"openrouter", "gemini", "groq", "together", "anthropic", "mock">>

\* where p stands in the priority order
Rank(p) == CHOOSE i \in 1..Len(PriorityOrder) : PriorityOrder[i] = p

\* C12: the providers are listed in the order openrouter, gemini, groq,
\* together, anthropic, mock, each at most once, and the mock descriptor is
\* always there, as the last element.
C12_PriorityOrderMockLast ==
    pc = "listed" =>
        /\ available.t = "list"
        /\ Len(available.v) >= 1
        /\ \A i \in 1..Len(available.v) : AvailableIds[i] \in ProviderIdSet \cup {"mock"}
        /\ \A i \in 1..Len(available.v), j \in 1..Len(available.v) :
              i < j => Rank(AvailableIds[i]) < Rank(AvailableIds[j])
        /\ available.v[Len(available.v)] = Descriptor("mock")

C12_Witness ==
    /\ pc = "listed"
    /\ AvailableIds = <<"gemini", "together", "mock">>

\* C13: a provider other than mock is listed exactly when its credential is
\* configured; with no credential the list is the mock descriptor alone.
C13_ListedIffCredential ==
    pc = "listed" =>
        /\ \A p \in ProviderIdSet :
              (\E i \in 1..Len(available.v) : AvailableIds[i] = p) <=> CredentialOf(Config, p) # ""
        /\ NoCredentials => available.v = <<Descriptor("mock")>>

C13_Witness ==
    /\ pc = "listed"
    /\ NoCredentials
    /\ Len(available.v) = 1

---------------------------------------------------------------------------
\* Properties of POST /api/generate and of the stored results (under SpecHttp)

\* the request served last was sent to this route
Served(route) == request # PyNone /\ request.route = route

\* the Authorization header is 'Bearer <token>' for the token of a stored
\* session whose expiry time has not passed
ValidSession(auth_header) ==
    \E s \in sessions : auth_header = Bearer(s.token) /\ ~(s.expires_at < now)

\* C15: in every application variant, a POST /api/generate whose bearer token
\* resolves to no identity is answered 401 and AIService.generate_test_cases is
\* not called.
C15_GenerateRequiresIdentity ==
    (Served("POST /api/generate") /\ ~ValidSession(request.authorization)) =>
        /\ response.status = 401
        /\ service_calls = <<>>

\* the upload of the request has a name whose extension is not pdf, docx or txt
UnsupportedFileType(req) ==
    /\ req.file # PyNone
    /\ req.file.filename # <<>>
    /\ \/ ~Contains(req.file.filename, ".")
       \/ Join(lower(AfterLastDot(req.file.filename))) \notin {"pdf", "docx", "txt"}

\* the requirements the request carries: the text of its upload, else its
\* 'requirements' field
RequirementsOf(req) ==
    IF req.file # PyNone /\ req.file.filename # <<>> /\ req.file.content # <<>>
    THEN req.file.content
    ELSE IF req.data = PyNone THEN <<>>
    ELSE Get(req.data.v, "requirements", <<>>)

\* the two input errors: an unsupported file type, or requirements that are
\* empty once whitespace is trimmed
InputError(req) == UnsupportedFileType(req) \/ strip(RequirementsOf(req)) = <<>>

\* C16: a POST /api/generate of an authenticated caller with an input error is
\* answered 400, AIService.generate_test_cases is not called for it, and no
\* result is stored.
C16_InputErrorRejected ==
    [][(/\ request'.route = "POST /api/generate"
        /\ ValidSession(request'.authorization) \/ app = "app_simple"
        /\ InputError(request'))
       => (/\ response'.status = 400
           /\ service_calls' = <<>>
           /\ generated_files' = generated_files)]_vars

FileRoutes ==
    {"GET /api/generate/<file_id>", "GET /api/download/excel/<file_id>",
     "GET /api/download/csv/<file_id>", "DELETE /api/history/<file_id>"}

\* the request carries the token of a session of somebody else than the owner of f
ForeignRequest(req, f) ==
    /\ req.route \in FileRoutes
    /\ req.file_id = f.id
    /\ \E s \in sessions : req.authorization = Bearer(s.token) /\ s.user_id # f.user_id

\* C17: a request to read, download or delete a stored file, made with the
\* session of a user who does not own it, is answered 404 and leaves the stored
\* files as they were.
C17_OnlyOwnerReachesFile ==
    [][\A f \in generated_files :
          ForeignRequest(request', f) =>
             /\ response' = FileNotFound
             /\ generated_files' = generated_files]_vars

C17_Witness ==
    /\ Served("DELETE /api/history/<file_id>")
    /\ response.status = 404
    /\ user # PyNone
    /\ \E f \in generated_files : f.id = request.file_id /\ f.user_id # user.id

---------------------------------------------------------------------------
\* Properties of the sessions (under SpecAuth)

\* the routes whose handlers start with get_current_user()
ProtectedRoutes == {"GET /api/me", "POST /api/generate"} \cup FileRoutes

\* C18: on a protected route the request is resolved to an identity only when
\* its Authorization header is 'Bearer <token>' for a stored session that has
\* not expired; a request with no header, a malformed header, an unknown token
\* or an expired session is answered 401.
C18_IdentityOnlyFromLiveSession ==
    (request # PyNone /\ request.route \in ProtectedRoutes /\ app # "app_simple") =>
        /\ user # PyNone => ValidSession(request.authorization)
        /\ ~ValidSession(request.authorization) => (user = PyNone /\ response = Unauthorized)

C18_Witness ==
    /\ Served("GET /api/me")
    /\ response = Unauthorized
    /\ \E s \in sessions : request.authorization = Bearer(s.token) /\ s.expires_at < now

---------------------------------------------------------------------------
\* The 'provider' field of a result (under Spec)

\* C21: the 'provider' field of every result of generate_test_cases names the
\* generator of its test cases: the provider that was called when its answer
\* was parsed, whatever 'provider' the answer itself holds, and 'mock' when the
\* mock generator produced them.
C21_ProviderNamesGenerator ==
    pc = "returned" =>
        /\ Has(result, "provider")
        /\ FromMockGenerator => result.v["provider"] = PyStr("mock")
        /\ (invoked \in ProviderIdSet /\ call_exc = NoExc) =>
               result.v["provider"] = PyStr(invoked)

C21_Witness ==
    /\ pc = "returned"
    /\ invoked \in ProviderIdSet
    /\ Core = ObjProvider
    /\ json_loads(Core).val.v["provider"] = PyStr("x")
    /\ result.v["provider"] = PyStr(invoked)

---------------------------------------------------------------------------
\* The project type handed to the service (under SpecHttp)

\* C22: whenever a POST /api/generate calls AIService.generate_test_cases, the
\* project_type it passes is one of Web, Mobile, API, Desktop, and it is Web
\* when the request names no project_type or one outside the enumeration.
C22_ProjectTypeNormalised ==
    (Served("POST /api/generate") /\ service_calls # <<>>) =>
        \A i \in 1..Len(service_calls) :
            LET asked == IF request.data = PyNone THEN ""
                         ELSE Get(request.data.v, "project_type", "")
            IN  /\ service_calls[i].project_type \in {"Web", "Mobile", "API", "Desktop"}
                /\ asked \notin {"Web", "Mobile", "API", "Desktop"} =>
                       service_calls[i].project_type = "Web"

---------------------------------------------------------------------------
\* The listing of GET /api/history (under SpecHistory)

\* the stored file belongs to the user the request was resolved to
OwnedByUser(f) == IF app = "app" THEN f.user_id = user.id ELSE f.user_email = user.email

\* C23: a GET /api/history that is answered 200 lists exactly the stored files
\* of the requesting user, each once, and no file of the listing was created
\* before a file that comes after it.
C23_HistoryOwnFilesByRecency ==
    (Served("GET /api/history") /\ response.status = 200) =>
        LET history == response.body.history
        IN  /\ {history[i].id : i \in DOMAIN history} =
                  {f.id : f \in {g \in generated_files : OwnedByUser(g)}}
            /\ \A i, j \in DOMAIN history : i # j => history[i].id # history[j].id
            /\ \A i, j \in DOMAIN history :
                  i < j => history[i].created_at >= history[j].created_at

---------------------------------------------------------------------------
\* The cleaning of the response (under SpecParse)

\* the text with its whitespace trimmed, one leading fence marker (bare or with
\* the json tag) removed if it starts with one, one trailing fence marker
\* removed if it ends with one, and trimmed again
OneFenceStripped(text) ==
    LET trimmed == strip(text)
        headless == IF startswith(trimmed, FenceJson) THEN DropChars(trimmed, 7)
                    ELSE IF startswith(trimmed, Fence) THEN DropChars(trimmed, 3)
                    ELSE trimmed
        bare == IF endswith(headless, Fence) THEN DropLastChars(headless, 3) ELSE headless
    IN  strip(bare)

\* C24: the text _parse_response hands to its first json.loads is the response
\* with exactly one leading and one trailing fence marker stripped: no second
\* leading fence is removed and nothing after the marker is cut.
C24_ExactlyOneFenceStripped ==
    pc = "parsed" => CleanResponse(response_text) = OneFenceStripped(response_text)

---------------------------------------------------------------------------
\* Logout (under SpecAuth)

\* the request served last was a logout with the n-th token issued
LoggedOut(n) ==
    /\ Served("POST /api/logout")
    /\ n <= sequence.tokens
    /\ request.authorization = Bearer(TokenAt(n))

\* the request served last presented the n-th token to a protected route
PresentedTo(n) ==
    /\ request # PyNone
    /\ request.route \in ProtectedRoutes
    /\ request.authorization = Bearer(TokenAt(n))

---------------------------------------------------------------------------
\* The sessions table of routes/auth.py (under SpecAuth)

SessionsOf(user_id) == {r \in sessions : r.user_id = user_id}

\* C26: with routes/auth.py every user has at most one session row, and after a
\* successful login that row is the one of the token just issued: the tokens of
\* the user's earlier logins are gone.
C26_OneSessionPerUser ==
    app = "app" =>
        /\ \A u \in users : Cardinality(SessionsOf(u.id)) <= 1
        /\ (Served("POST /api/login") /\ response.status = 200) =>
               {r.token : r \in SessionsOf(response.body.user.id)} = {response.body.token}

C26_Witness ==
    /\ app = "app"
    /\ Served("POST /api/login")
    /\ response.status = 200
    /\ response.body.token = TokenAt(2)
    /\ Cardinality(users) = 1
    /\ {r.token : r \in sessions} = {TokenAt(2)}

---------------------------------------------------------------------------
\* Requests served at once (under SpecRace)

\* worker i has answered 201 to a signup
SignedUp(i) ==
    /\ threads[i].pc = "done"
    /\ threads[i].route = "POST /api/signup"
    /\ threads[i].response.status = 201

\* C27: whatever the interleaving of the signups, no two accounts have one
\* email, no two signups with one email are both answered 201, and the account
\* of a signup answered 201 is the one it created, not another's written over it.
C27_OneAccountPerEmail ==
    /\ \A u, v \in users : u.email = v.email => u = v
    /\ \A i, j \in DOMAIN threads :
          (i # j /\ SignedUp(i) /\ SignedUp(j)) =>
             threads[i].response.body.user.email # threads[j].response.body.user.email
    /\ \A i \in DOMAIN threads :
          SignedUp(i) =>
             \E u \in users : /\ u.email = threads[i].response.body.user.email
                              /\ verify_password(threads[i].locals.password, u.password_hash)

\* worker i has answered 200 to a generate request
Generated(i) ==
    /\ threads[i].pc = "done"
    /\ threads[i].route = "POST /api/generate"
    /\ threads[i].response.status = 200

\* C28: with app_memory.py, whatever the interleaving of the generate requests,
\* two requests answered 200 got different file_ids, and files_store holds one
\* entry per result stored: none was written over.
C28_FreshFileId ==
    app = "app_memory" =>
        /\ \A i, j \in DOMAIN threads :
              (i # j /\ Generated(i) /\ Generated(j)) =>
                 threads[i].response.body.file_id # threads[j].response.body.file_id
        /\ Cardinality(generated_files) = sequence.generated_files

---------------------------------------------------------------------------
\* The default of GET /api/providers (under SpecProviders)

\* C30: the 'default' of a GET /api/providers response is the id of one of the
\* providers listed in the same response.
C30_DefaultIsListed ==
    (request # PyNone /\ request.route = "GET /api/providers") =>
        \E i \in 1..Len(response.body.providers.v) :
            response.body.providers.v[i].v["id"] = PyStr(response.body.default)

---------------------------------------------------------------------------
\* The temporary copy of an upload (under SpecHttp)

\* the request came with a file whose extension is allowed, to a variant that
\* reads uploads, from a caller the variant lets in
UploadTaken ==
    /\ Served("POST /api/generate")
    /\ app # "index"
    /\ app = "app_simple" \/ ValidSession(request.authorization)
    /\ request.file # PyNone
    /\ request.file.filename # <<>>
    /\ ~UnsupportedFileType(request)

\* C29: after a POST /api/generate that came with an allowed upload, the
\* upload folder holds no file: the temporary copy is gone, whether the
\* extraction of its text returned or raised.
C29_TempUploadRemoved == UploadTaken => uploads = {}

C29_Witness ==
    /\ UploadTaken
    /\ request.file.filename = <<"req", ".", "pdf">>
    /\ ~request.file.readable
    /\ response.status = 500
    /\ uploads = {}

====
